---- MODULE Spec2Model ----
(***************************************************************************)
(* PAWS local telemetry store (paws-frontend/local-db-server.js).          *)
(*                                                                         *)
(* The server is one Node.js process.  A handler runs without interruption *)
(* from one completed file I/O to the next pending one, so one step of the *)
(* model is one such turn: the completion of a pending file I/O, the       *)
(* release of the per-file queue entry, the start of the operation queued  *)
(* behind it, and the code of the handler up to its next file operation.   *)
(*                                                                         *)
(* Time is counted in minutes: every duration constant of the source is a  *)
(* whole number of minutes.  An ISO time string is the record              *)
(* [valid, t]: valid is whether Date.parse yields a finite number, t the   *)
(* instant it yields.                                                      *)
(***************************************************************************)
EXTENDS Integers, Sequences, FiniteSets, TLC

---------------------------------------------------------------------------
(* Bounds of the model *)

\* concurrent HTTP requests to the document endpoints
NumClients == 3
\* requests to the document endpoints in a run
MaxRequests == 3
\* concurrent callers of the event-log and notification handlers
NumCallers == 2
\* calls of the event-log and notification handlers and sweeps in a run
MaxCalls == 2
\* clock advances
MaxTicks == 1
\* the longest document name, in name tokens
MaxNameLen == 3
\* the maxEntries passed to recordEventWithWindow
MaxLogEntries == 1

Clients == 1..NumClients
Callers == 1..NumCallers
Janitor == NumClients + 1
Proc == 1..(NumClients + 1)

---------------------------------------------------------------------------
(* Program constants *)

NOTIFICATIONS_FILE == "notifications"
MOTION_EVENTS_FILE == "motion-events"
WATER_EVENTS_FILE == "water-events"
FEEDING_HISTORY_FILE == "feeding-history"
BARK_EVENTS_FILE == "bark-events"
FEEDER_EVENTS_FILE == "feeder-events"
ACTIVITY_HISTORY_FILE == "activity-history"
WEIGHT_HISTORY_FILE == "weight-history"
ENV_CURRENT_KEY == "environment-current"
ENV_HISTORY_FILE == "environment-history"
ENV_CHART_FILE == "environment"
ANALYTICS_FILE == "analysis"
\* the name that app.post("/actions") reads and writes
ACTIONS_FILE == "actions"
\* the name that runFoodAnalysis reads and app.post("/feeding/schedule") writes
FEEDING_FILE == "feeding"
NOTIFICATION_LIMIT == 50
NOTIFICATION_SUPPRESS_MS == 6 * 60
EVENT_WINDOW_MS == 7 * 24 * 60
AUTO_CLEANUP_MAX_AGE_MS == 31 * 24 * 60
AUTO_CLEANUP_INTERVAL_MS == 60

\* the documents of the model
Keys == {"dashboard", "settings", FEEDING_FILE, ACTIONS_FILE,
         ENV_CURRENT_KEY, ENV_HISTORY_FILE, ENV_CHART_FILE,
         WATER_EVENTS_FILE, FEEDING_HISTORY_FILE, MOTION_EVENTS_FILE,
         BARK_EVENTS_FILE, FEEDER_EVENTS_FILE, ACTIVITY_HISTORY_FILE,
         WEIGHT_HISTORY_FILE, ANALYTICS_FILE, NOTIFICATIONS_FILE}

---------------------------------------------------------------------------
(* JavaScript values: [t, v] with t the type and v the payload *)

Undefined == [t |-> "undefined", v |-> 0]
Null == [t |-> "null", v |-> 0]
Num(n) == [t |-> "number", v |-> n]
Str(s) == [t |-> "string", v |-> s]
Bool(b) == [t |-> "boolean", v |-> b]
\* a string that holds an ISO-8601 date, as Date.prototype.toISOString makes
Iso(ms) == [t |-> "isodate", v |-> ms]
Obj(fields) == [t |-> "obj", v |-> fields]
Arr(items) == [t |-> "arr", v |-> items]
EmptyObj == Obj(<<>>)
EmptyArr == Arr(<<>>)

\* x?.f
Get(x, f) == IF x.t = "obj" /\ f \in DOMAIN x.v THEN x.v[f] ELSE Undefined

\* the truthiness of a value, as `if (x)`, `!x`, `a || b` test it
Truthy(x) ==
    CASE x.t \in {"undefined", "null"} -> FALSE
      [] x.t = "boolean" -> x.v
      [] x.t = "number" -> x.v # 0
      [] x.t = "string" -> x.v # ""
      [] OTHER -> TRUE

\* Date.parse(x): finite for an ISO date string, NaN for anything else
DateParse(x) ==
    IF x.t = "isodate" THEN [finite |-> TRUE, ms |-> x.v]
    ELSE [finite |-> FALSE, ms |-> 0]

\* new Date(ms).toISOString()
toISOString(ms) == Iso(ms)

SliceNewestOff(items, n) ==
    SubSeq(items, IF Len(items) > n THEN Len(items) - n + 1 ELSE 1, Len(items))

\* Array.prototype.slice(0, n)
SliceFirst(items, n) == SubSeq(items, 1, IF Len(items) < n THEN Len(items) ELSE n)

\* Array.prototype.slice(-n)
SliceLast(items, n) ==
    SubSeq(items, IF Len(items) > n THEN Len(items) - n + 1 ELSE 1, Len(items))

\* the property names of an array's elements
IndexKeys == <<"0", "1", "2", "3", "4", "5", "6", "7">>

\* the own enumerable properties a spread copies: { ...x }
Fields(x) ==
    CASE x.t = "obj" -> x.v
      [] x.t = "arr" -> [f \in {IndexKeys[i] : i \in 1..Len(x.v)} |->
                            x.v[CHOOSE i \in 1..Len(x.v) : IndexKeys[i] = f]]
      [] OTHER -> <<>>

\* { ...current, ...updates }
Spread(current, updates) ==
    [f \in (DOMAIN current) \cup (DOMAIN updates) |->
        IF f \in DOMAIN updates THEN updates[f] ELSE current[f]]

pruneUndefinedKeepAll(value) == value

\* pruneUndefined: the top-level fields of an object that are not undefined
pruneUndefined(value) ==
    IF value.t # "obj" THEN value
    ELSE Obj([f \in {g \in DOMAIN value.v : value.v[g].t # "undefined"} |-> value.v[f]])

JsonTextTopLevel(value) == pruneUndefined(value)

\* JSON.parse(JSON.stringify(value)): what a file holds once value is written.
\* An undefined property is left out at every depth, an undefined element
\* and NaN become null.
RECURSIVE JsonText(_)
JsonText(value) ==
    CASE value.t = "obj" ->
            Obj([f \in {g \in DOMAIN value.v : value.v[g].t # "undefined"} |->
                    JsonText(value.v[f])])
      [] value.t = "arr" ->
            Arr([i \in 1..Len(value.v) |->
                    IF value.v[i].t = "undefined" THEN Null ELSE JsonText(value.v[i])])
      [] value.t = "nan" -> Null
      [] OTHER -> value

ensureArray(value) == IF value.t = "arr" THEN value.v ELSE <<>>

\* the file of a key: absent (ENOENT), holding JSON text, or being written;
\* while it is being written its bytes are no JSON text, and val is what it
\* held before writeFile truncated it
Absent == [st |-> "absent", val |-> Null]
Stored(json) == [st |-> "ok", val |-> json]
Partial(before) == [st |-> "partial", val |-> before.val]

---------------------------------------------------------------------------
(* State *)

VARIABLES
    now,        \* Date.now()
    ticks,      \* clock advances so far
    cache,      \* the cached state of the detectors: lastWaterLevelReading, ...
    files,      \* the data directory: key -> Absent, Partial or Stored(json)
    fileLocks,  \* the fileLocks map: key -> the operation whose promise it holds
    op,         \* per process: its pending file operation
    pc,         \* per process: where its handler stands
    loc,        \* per process: the handler's local variables
    resp,       \* per process: the last HTTP response
    reqs,       \* requests issued so far
    arrivals,   \* per key: number of operations that entered queueFileOp
    started,    \* per key: tickets of the operations in the order their task began
    finished    \* per key: tickets of the operations in the order their task ended

vars == <<now, ticks, cache, files, fileLocks, op, pc, loc, resp, reqs,
          arrivals, started, finished>>

\* the cached state variables as the module declares them: `let x;`
NoCache ==
    [lastWaterLevelReading |-> Undefined, lastWaterLevelState |-> Undefined,
     lastMotionLightState |-> Undefined, lastBarkAlertState |-> Undefined,
     lastAirQualityAlertState |-> Undefined, lastPetSleepingState |-> Undefined,
     lastFeedingState |-> Undefined]

NoLock == 0
NoRequest == [kind |-> "none", key |-> "none", arg |-> Null]
Request(kind, key, arg) == [kind |-> kind, key |-> key, arg |-> arg]
IdleOp == [kind |-> "none", key |-> "none", arg |-> Null, phase |-> "idle",
           prev |-> NoLock, ticket |-> 0]
NoLoc == [none |-> TRUE]
NoResp == [of |-> "none", status |-> 0, body |-> Null]

\* the task of an operation is executing: its file I/O is pending
Executing(o) == o.phase \in {"running", "merging", "writing"}

---------------------------------------------------------------------------
(* queueFileOp: the per-file promise chain *)

\* the store as one value, so that a turn can be written as a composition
Cur == [files |-> files, fl |-> fileLocks, op |-> op,
        ar |-> arrivals, st |-> started, fin |-> finished]

Commit(S) ==
    /\ files' = S.files
    /\ fileLocks' = S.fl
    /\ op' = S.op
    /\ arrivals' = S.ar
    /\ started' = S.st
    /\ finished' = S.fin

StoreUnchanged == UNCHANGED <<files, fileLocks, op, arrivals, started, finished>>

PreviousIgnored(fl, o, k) == NoLock

\* fileLocks.get(filePath) ?? Promise.resolve(): the operation whose promise
\* the caller awaits, NoLock when there is none or it is already resolved
Previous(fl, o, k) ==
    IF fl[k] # NoLock /\ o[fl[k]].phase # "idle" /\ o[fl[k]].key = k
    THEN fl[k] ELSE NoLock

LockSetOnlyIfAbsent(fl, k, p) == IF fl[k] = NoLock THEN [fl EXCEPT ![k] = p] ELSE fl

\* fileLocks.set(filePath, next)
LockSet(fl, k, p) == [fl EXCEPT ![k] = p]

LockDeleteAlways(fl, k, p) == [fl EXCEPT ![k] = NoLock]

\* if (fileLocks.get(filePath) === next) fileLocks.delete(filePath)
LockDelete(fl, k, p) == IF fl[k] = p THEN [fl EXCEPT ![k] = NoLock] ELSE fl

RECURSIVE AppendTickets(_, _, _)
AppendTickets(seq, o, ps) ==
    IF ps = {} THEN seq
    ELSE LET q == CHOOSE x \in ps : \A y \in ps : o[x].ticket <= o[y].ticket
         IN AppendTickets(Append(seq, o[q].ticket), o, ps \ {q})

\* queueFileOp up to `await previous`: p chains request r behind the
\* operation stored for the file and stores its own promise; the task starts
\* in the same turn when there is nothing to wait for
QueueEnter(S, p, r) ==
    LET k == r.key
        previous == Previous(S.fl, S.op, k)
        t == S.ar[k] + 1
        begins == previous = NoLock
    IN [S EXCEPT
          !.fl = LockSet(@, k, p),
          !.op = [@ EXCEPT ![p] =
                    [kind |-> r.kind, key |-> k, arg |-> r.arg,
                     phase |-> IF begins THEN "running" ELSE "waiting",
                     prev |-> previous, ticket |-> t]],
          !.ar = [@ EXCEPT ![k] = t],
          !.st = [@ EXCEPT ![k] = IF begins THEN Append(@, t) ELSE @]]

\* p leaves without release(): the operations that await it stay waiting
QueueLeaveUnreleased(S, p) ==
    [S EXCEPT
       !.fl = LockDelete(@, S.op[p].key, p),
       !.op = [@ EXCEPT ![p] = IdleOp],
       !.fin = [@ EXCEPT ![S.op[p].key] = Append(@, S.op[p].ticket)]]

\* the finally block of queueFileOp: release() resolves p's promise, which
\* starts the task of every operation awaiting it, and the map entry is
\* deleted when it is still p's
QueueLeave(S, p) ==
    LET k == S.op[p].key
        woken == {q \in Proc : S.op[q].phase = "waiting" /\ S.op[q].prev = p}
    IN [S EXCEPT
          !.fl = LockDelete(@, k, p),
          !.op = [q \in Proc |->
                    IF q = p THEN IdleOp
                    ELSE IF q \in woken
                         THEN [@[q] EXCEPT !.phase = "running", !.prev = NoLock]
                         ELSE @[q]],
          !.fin = [@ EXCEPT ![k] = Append(@, S.op[p].ticket)],
          !.st = [@ EXCEPT ![k] = AppendTickets(@, S.op, woken)]]

---------------------------------------------------------------------------
(* readJsonFile, writeJsonFile, mergeJsonFile, unlink: the tasks *)

MergeNextCurrentWins(current, mutation) ==
    LET cur == IF current.st = "ok" THEN current.val ELSE EmptyObj
        updates == pruneUndefined(mutation)
    IN IF cur.t \in {"obj", "arr"}
       THEN pruneUndefined(Obj(Spread(Fields(updates), Fields(cur))))
       ELSE updates

\* mergeJsonFile: next, computed from the contents read (ENOENT reads as {})
MergeNext(current, mutation) ==
    LET cur == IF current.st = "ok" THEN current.val ELSE EmptyObj
        updates == pruneUndefined(mutation)
    IN IF cur.t \in {"obj", "arr"}
       THEN pruneUndefined(Obj(Spread(Fields(cur), Fields(updates))))
       ELSE updates

\* the pending I/O of p's operation is the last of its task
CanComplete(p) ==
    \/ op[p].phase = "running" /\ op[p].kind \in {"read", "remove"}
    \/ op[p].phase = "running" /\ op[p].kind = "merge" /\ files[op[p].key].st = "partial"
    \/ op[p].phase = "writing"

\* what the operation returns or throws: err is the HttpError status, 0 for none
Outcome(p) ==
    LET f == files[op[p].key] IN
    CASE op[p].phase = "writing" -> [err |-> 0, val |-> op[p].arg]
      [] op[p].kind = "remove" ->
            [err |-> IF f.st = "absent" THEN 404 ELSE 0, val |-> Null]
      [] op[p].kind = "merge" -> [err |-> 500, val |-> Null]
      [] OTHER ->
            IF f.st = "absent" THEN [err |-> 404, val |-> Null]
            ELSE IF f.st = "partial" THEN [err |-> 500, val |-> Null]
            ELSE [err |-> 0, val |-> f.val]

\* the store after p's last I/O completed and p left the queue
Complete(S, p) ==
    LET k == S.op[p].key
        S1 == IF S.op[p].phase = "writing"
              THEN [S EXCEPT !.files = [@ EXCEPT ![k] = Stored(JsonText(S.op[p].arg))]]
              ELSE IF S.op[p].kind = "remove"
                   THEN [S EXCEPT !.files = [@ EXCEPT ![k] = Absent]]
                   ELSE S
    IN QueueLeave(S1, p)

\* mergeJsonFile, readFile resolved: next is computed, mkdir is pending
MergeRead(p) ==
    /\ op[p].kind = "merge" /\ op[p].phase = "running"
    /\ files[op[p].key].st # "partial"
    /\ op' = [op EXCEPT ![p].phase = "merging",
                        ![p].arg = MergeNext(files[op[p].key], op[p].arg)]
    /\ UNCHANGED <<now, ticks, cache, files, fileLocks, pc, loc, resp, reqs,
                   arrivals, started, finished>>

\* writeJsonFile / mergeJsonFile, mkdir resolved: writeFile opens the file,
\* which truncates it, and its contents are in flight
FileOpen(p) ==
    /\ \/ op[p].kind = "write" /\ op[p].phase = "running"
       \/ op[p].kind = "merge" /\ op[p].phase = "merging"
    /\ op' = [op EXCEPT ![p].phase = "writing"]
    /\ files' = [files EXCEPT ![op[p].key] = Partial(@)]
    /\ UNCHANGED <<now, ticks, cache, fileLocks, pc, loc, resp, reqs,
                   arrivals, started, finished>>

---------------------------------------------------------------------------
(* The document endpoints: /api/files/:file *)

StoreKeys == {"dashboard", "settings"}
PutBodies == {Obj([x |-> Num(1)])}
PatchBodies == {Obj([counter |-> Num(1)]), EmptyArr}

\* the run may still issue a request
Budget == reqs < MaxRequests

\* the run may still call a handler or start a sweep
CallBudget == reqs < MaxCalls

\* p's handler calls a store function: the request enters queueFileOp
Call(p, r, label) ==
    /\ Commit(QueueEnter(Cur, p, r))
    /\ pc' = [pc EXCEPT ![p] = label]

\* app.get("/api/files/:file"), up to the pending readFile
GetFile(p, k) ==
    /\ pc[p] = "idle"
    /\ Call(p, Request("read", k, Null), "get")
    /\ reqs' = reqs + 1
    /\ UNCHANGED <<now, ticks, cache, loc, resp>>

\* app.put / app.post("/api/files/:file"), up to the pending mkdir
PutFile(p, k, body) ==
    /\ pc[p] = "idle"
    /\ Call(p, Request("write", k, pruneUndefined(body)), "put")
    /\ reqs' = reqs + 1
    /\ UNCHANGED <<now, ticks, cache, loc, resp>>

\* app.patch("/api/files/:file"): a body that is no object is refused with
\* 400, any other is merged
PatchFile(p, k, body) ==
    /\ pc[p] = "idle"
    /\ reqs' = reqs + 1
    /\ IF body.t # "obj"
       THEN /\ resp' = [resp EXCEPT ![p] = [of |-> "patch", status |-> 400, body |-> Null]]
            /\ StoreUnchanged
            /\ UNCHANGED <<now, ticks, cache, loc, pc>>
       ELSE /\ Call(p, Request("merge", k, body), "patch")
            /\ UNCHANGED <<now, ticks, cache, loc, resp>>

\* app.delete("/api/files/:file"), up to the pending unlink
DeleteFile(p, k) ==
    /\ pc[p] = "idle"
    /\ Call(p, Request("remove", k, Null), "delete")
    /\ reqs' = reqs + 1
    /\ UNCHANGED <<now, ticks, cache, loc, resp>>

\* the operation of a document endpoint ends and the response is sent
\* (maybeRecordEnvironmentSnapshot returns at once for these documents)
Respond(p) ==
    /\ pc[p] \in {"get", "put", "patch", "delete"}
    /\ CanComplete(p)
    /\ Commit(Complete(Cur, p))
    /\ pc' = [pc EXCEPT ![p] = "idle"]
    /\ resp' = [resp EXCEPT ![p] =
                  LET out == Outcome(p) IN
                  IF out.err # 0 THEN [of |-> pc[p], status |-> out.err, body |-> Null]
                  ELSE [of |-> pc[p], status |-> IF pc[p] = "delete" THEN 204 ELSE 200,
                        body |-> IF pc[p] = "delete" THEN Null ELSE out.val]]
    /\ UNCHANGED <<now, ticks, cache, loc, reqs>>

---------------------------------------------------------------------------
(* The clock *)

\* time passes between two turns
Tick(d) ==
    /\ ticks < MaxTicks
    /\ now' = now + d
    /\ ticks' = ticks + 1
    /\ UNCHANGED <<cache, files, fileLocks, op, pc, loc, resp, reqs,
                   arrivals, started, finished>>

---------------------------------------------------------------------------
(* safelyReadJson and the event logs *)

\* safelyReadJson: a 404 and an undefined payload read as the fallback
SafeValue(out, fallback) ==
    IF out.err = 404 \/ out.val.t = "undefined" THEN fallback ELSE out.val

\* safelyReadJson rethrows every other error
Throws(out) == out.err \notin {0, 404}

\* the handler of p ends with an exception: its operation has left the queue
Fail(p, S) ==
    /\ Commit(S)
    /\ pc' = [pc EXCEPT ![p] = "idle"]
    /\ resp' = [resp EXCEPT ![p] = [of |-> pc[p], status |-> 500, body |-> Null]]

\* Number.isFinite(ts) && ts >= cutoff
WithinWindow(entry, cutoff) ==
    LET ts == DateParse(Get(entry, "ts")) IN ts.finite /\ ts.ms >= cutoff

SliceLastOffByOne(items, n) == SliceLast(items, n + 1)

\* .slice(-maxEntries)
CapEntries(items, n) == SliceLast(items, n)

\* events.filter(...).slice(-maxEntries)
WindowPrune(events, cutoff, maxEntries) ==
    CapEntries(SelectSeq(events, LAMBDA e : WithinWindow(e, cutoff)), maxEntries)

\* pruneUndefined({ ts: new Date().toISOString(), ...event })
Stamped(event, t) ==
    pruneUndefined(Obj(Spread([ts |-> toISOString(t)], Fields(event))))

LogFile == MOTION_EVENTS_FILE
LogEvents == {Obj([lightOn |-> Bool(TRUE)]), Null}
LogWindows == {EVENT_WINDOW_MS}
LogCaps == {MaxLogEntries}

\* recordEventWithWindow, up to the pending read of the log
AppendStart(p, event, windowMs, maxEntries) ==
    /\ pc[p] = "idle"
    /\ reqs' = reqs + 1
    /\ loc' = [loc EXCEPT ![p] = [event |-> event, windowMs |-> windowMs,
                                  maxEntries |-> maxEntries,
                                  events |-> EmptyArr, cutoff |-> 0]]
    /\ IF event.t # "obj"
       THEN /\ resp' = [resp EXCEPT ![p] = [of |-> "append", status |-> 200, body |-> EmptyArr]]
            /\ StoreUnchanged
            /\ UNCHANGED <<now, ticks, cache, pc>>
       ELSE /\ Call(p, Request("read", LogFile, Null), "append_read")
            /\ UNCHANGED <<now, ticks, cache, resp>>

\* recordEventWithWindow, the log is read: the event is pushed, the array is
\* filtered and sliced, and its write is queued
AppendWrite(p) ==
    /\ pc[p] = "append_read"
    /\ CanComplete(p)
    /\ LET out == Outcome(p)
           S1 == Complete(Cur, p)
           pushed == Append(ensureArray(SafeValue(out, EmptyArr)),
                            Stamped(loc[p].event, now))
           cutoff == now - loc[p].windowMs
           events == WindowPrune(pushed, cutoff, loc[p].maxEntries)
       IN IF Throws(out)
          THEN Fail(p, S1) /\ UNCHANGED loc
          ELSE /\ Commit(QueueEnter(S1, p, Request("write", LogFile, Arr(events))))
               /\ pc' = [pc EXCEPT ![p] = "append_write"]
               /\ loc' = [loc EXCEPT ![p].events = Arr(pushed), ![p].cutoff = cutoff]
               /\ UNCHANGED resp
    /\ UNCHANGED <<now, ticks, cache, reqs>>

\* recordEventWithWindow, the log is written: the array is returned
AppendDone(p) ==
    /\ pc[p] = "append_write"
    /\ CanComplete(p)
    /\ Commit(Complete(Cur, p))
    /\ pc' = [pc EXCEPT ![p] = "idle"]
    /\ resp' = [resp EXCEPT ![p] = [of |-> "append", status |-> 200, body |-> Outcome(p).val]]
    /\ UNCHANGED <<now, ticks, cache, loc, reqs>>

---------------------------------------------------------------------------
(* appendNotification *)

WATER_LOW_NOTIFICATION == "Water level sensor reports LOW. Please refill the reservoir."
MOTION_NOTIFICATION == "Motion detected near the habitat entrance."

PUSH_NOTIFICATION_TYPES ==
    {"feeding_time", "feeding_complete", "water_low", "abnormal_barking",
     "air_quality_alert", "system_alert"}

\* the notifications of updateWaterLevelState and of updateMotionState
Notices ==
    {[message |-> WATER_LOW_NOTIFICATION, type |-> "warning", pushType |-> Str("water_low")],
     [message |-> MOTION_NOTIFICATION, type |-> "info", pushType |-> Null]}

\* notifications.find((entry) => entry?.message === message)
RECURSIVE Find(_, _)
Find(items, message) ==
    IF items = <<>> THEN Undefined
    ELSE IF Get(Head(items), "message") = Str(message) THEN Head(items)
    ELSE Find(Tail(items), message)

SuppressedNever(existing, t) == FALSE

\* Number.isFinite(lastTs) && Date.now() - lastTs < NOTIFICATION_SUPPRESS_MS
Suppressed(existing, t) ==
    LET lastTs == DateParse(Get(existing, "time")) IN
    lastTs.finite /\ t - lastTs.ms < NOTIFICATION_SUPPRESS_MS

WithoutMessageKeepAll(items, message) == items

\* notifications.filter((entry) => entry?.message !== message)
WithoutMessage(items, message) ==
    SelectSeq(items, LAMBDA e : Get(e, "message") # Str(message))

\* the entry that appendNotification adds at time t
FreshNotification(n, t) ==
    Obj([message |-> Str(n.message),
         type |-> Str(n.type),
         time |-> toISOString(t),
         pushType |-> IF Truthy(n.pushType) /\ n.pushType.v \in PUSH_NOTIFICATION_TYPES
                      THEN n.pushType ELSE Undefined,
         pushed |-> Bool(FALSE)])

PushLast(items, e) == Append(items, e)

\* notifications.unshift(e)
Unshift(items, e) == <<e>> \o items

\* appendNotification, up to the pending read of the list
NotifyStart(p, n) ==
    /\ pc[p] = "idle"
    /\ reqs' = reqs + 1
    /\ loc' = [loc EXCEPT ![p] = [message |-> n.message, type |-> n.type,
                                  pushType |-> n.pushType, existing |-> Undefined,
                                  notifications |-> EmptyArr]]
    /\ IF n.message = ""
       THEN /\ resp' = [resp EXCEPT ![p] = [of |-> "notify", status |-> 200, body |-> Null]]
            /\ StoreUnchanged
            /\ UNCHANGED <<now, ticks, cache, pc>>
       ELSE /\ Call(p, Request("read", NOTIFICATIONS_FILE, Null), "notify_read")
            /\ UNCHANGED <<now, ticks, cache, resp>>

\* appendNotification, the list is read: return when the message is
\* suppressed, else queue the write of the list with the fresh entry
NotifyDecide(p) ==
    /\ pc[p] = "notify_read"
    /\ CanComplete(p)
    /\ LET out == Outcome(p)
           S1 == Complete(Cur, p)
           read == ensureArray(SafeValue(out, EmptyArr))
           existing == Find(read, loc[p].message)
           kept == IF Truthy(existing) THEN WithoutMessage(read, loc[p].message) ELSE read
           next == SliceFirst(Unshift(kept, FreshNotification(loc[p], now)),
                              NOTIFICATION_LIMIT)
       IN IF Throws(out)
          THEN Fail(p, S1) /\ UNCHANGED loc
          ELSE IF Truthy(existing) /\ Suppressed(existing, now)
          THEN /\ Commit(S1)
               /\ pc' = [pc EXCEPT ![p] = "idle"]
               /\ loc' = [loc EXCEPT ![p].existing = existing,
                                     ![p].notifications = Arr(read)]
               /\ resp' = [resp EXCEPT ![p] = [of |-> "notify", status |-> 200, body |-> Null]]
          ELSE /\ Commit(QueueEnter(S1, p, Request("write", NOTIFICATIONS_FILE, Arr(next))))
               /\ pc' = [pc EXCEPT ![p] = "notify_write"]
               /\ loc' = [loc EXCEPT ![p].existing = existing,
                                     ![p].notifications = Arr(next)]
               /\ UNCHANGED resp
    /\ UNCHANGED <<now, ticks, cache, reqs>>

\* appendNotification, the list is written
NotifyDone(p) ==
    /\ pc[p] = "notify_write"
    /\ CanComplete(p)
    /\ Commit(Complete(Cur, p))
    /\ pc' = [pc EXCEPT ![p] = "idle"]
    /\ resp' = [resp EXCEPT ![p] = [of |-> "notify", status |-> 200, body |-> Null]]
    /\ UNCHANGED <<now, ticks, cache, loc, reqs>>

---------------------------------------------------------------------------
(* app.post("/notifications/mark-pushed") *)

\* times.includes(x)
Includes(times, x) == \E i \in 1..Len(times) : times[i] = x

MarksUnpushed(times, n) == ~Truthy(Get(n, "pushed"))

\* times.includes(n.time) && !n.pushed
Marks(times, n) == Includes(times, Get(n, "time")) /\ ~Truthy(Get(n, "pushed"))

\* notifications.map(...): { ...n, pushed: true } for the entries to mark
MarkPushed(items, times) ==
    [i \in 1..Len(items) |->
        IF Marks(times, items[i])
        THEN Obj(Spread(Fields(items[i]), [pushed |-> Bool(TRUE)]))
        ELSE items[i]]

\* updated
Updated(items, times) == Cardinality({i \in 1..Len(items) : Marks(times, items[i])})

\* the times of the entries the list holds
TimesListed == {Get(e, "time") : e \in {ensureArray(files[NOTIFICATIONS_FILE].val)[i] :
                    i \in 1..Len(ensureArray(files[NOTIFICATIONS_FILE].val))}}

\* a time no entry has
UnlistedTime == Iso(0 - 1)

\* the request bodies: no times, an empty array, one time, two times
MarkBodies ==
    {Undefined, EmptyArr}
      \cup {Arr(<<t>>) : t \in TimesListed \cup {UnlistedTime}}
      \cup {Arr(<<t, UnlistedTime>>) : t \in TimesListed}

\* the handler, up to the pending read of the list
MarkPushedStart(p, times) ==
    /\ pc[p] = "idle"
    /\ reqs' = reqs + 1
    /\ IF times.t # "arr" \/ Len(ensureArray(times)) = 0
       THEN /\ resp' = [resp EXCEPT ![p] = [of |-> "mark-pushed", status |-> 400, body |-> Null]]
            /\ StoreUnchanged
            /\ UNCHANGED <<now, ticks, cache, pc, loc>>
       ELSE /\ loc' = [loc EXCEPT ![p] = [times |-> times, updated |-> 0]]
            /\ Call(p, Request("read", NOTIFICATIONS_FILE, Null), "mark_read")
            /\ UNCHANGED <<now, ticks, cache, resp>>

\* the handler, the list is read: the marked list is queued for writing when
\* an entry was marked, else the count is answered
MarkPushedMap(p) ==
    /\ pc[p] = "mark_read"
    /\ CanComplete(p)
    /\ LET out == Outcome(p)
           S1 == Complete(Cur, p)
           read == ensureArray(SafeValue(out, EmptyArr))
           updated == Updated(read, loc[p].times.v)
       IN IF Throws(out)
          THEN Fail(p, S1) /\ UNCHANGED loc
          ELSE IF updated > 0
          THEN /\ Commit(QueueEnter(S1, p, Request("write", NOTIFICATIONS_FILE,
                                                  Arr(MarkPushed(read, loc[p].times.v)))))
               /\ pc' = [pc EXCEPT ![p] = "mark_write"]
               /\ loc' = [loc EXCEPT ![p].updated = updated]
               /\ UNCHANGED resp
          ELSE /\ Commit(S1)
               /\ pc' = [pc EXCEPT ![p] = "idle"]
               /\ loc' = [loc EXCEPT ![p].updated = updated]
               /\ resp' = [resp EXCEPT ![p] = [of |-> "mark-pushed", status |-> 200,
                                               body |-> Num(updated)]]
    /\ UNCHANGED <<now, ticks, cache, reqs>>

\* the handler, the list is written: the count is answered
MarkPushedDone(p) ==
    /\ pc[p] = "mark_write"
    /\ CanComplete(p)
    /\ Commit(Complete(Cur, p))
    /\ pc' = [pc EXCEPT ![p] = "idle"]
    /\ resp' = [resp EXCEPT ![p] = [of |-> "mark-pushed", status |-> 200,
                                    body |-> Num(loc[p].updated)]]
    /\ UNCHANGED <<now, ticks, cache, loc, reqs>>

---------------------------------------------------------------------------
(* runAutoCleanup: the retention sweep *)

\* a || b
Or(a, b) == IF Truthy(a) THEN a ELSE b

\* the files that a sweep visits: AUTO_CLEANUP_ARRAY_FILES, followed by
\* AUTO_CLEANUP_OBJECT_FILES, followed by the environment chart. The count of
\* removed records, which is only logged, is left out.
SweepFiles == <<[name |-> WATER_EVENTS_FILE, kind |-> "array"],
                [name |-> FEEDING_HISTORY_FILE, kind |-> "array"],
                [name |-> MOTION_EVENTS_FILE, kind |-> "array"],
                [name |-> BARK_EVENTS_FILE, kind |-> "array"],
                [name |-> FEEDER_EVENTS_FILE, kind |-> "array"],
                [name |-> ACTIVITY_HISTORY_FILE, kind |-> "array"],
                [name |-> WEIGHT_HISTORY_FILE, kind |-> "array"],
                [name |-> ENV_HISTORY_FILE, kind |-> "array"],
                [name |-> NOTIFICATIONS_FILE, kind |-> "array"],
                [name |-> ACTIONS_FILE, kind |-> "object"],
                [name |-> ANALYTICS_FILE, kind |-> "object"],
                [name |-> "dashboard", kind |-> "object"],
                [name |-> ENV_CURRENT_KEY, kind |-> "object"],
                [name |-> ENV_CHART_FILE, kind |-> "chart"]>>

\* a filter that judges an entry by ts alone
SweepKeepsTsOnly(entry, cutoff) ==
    LET timestamp == Get(entry, "ts") IN
    IF ~Truthy(timestamp) THEN TRUE
    ELSE LET ts == DateParse(timestamp) IN ts.finite /\ ts.ms >= cutoff

\* the filter of an array file: an entry without a timestamp is kept, any
\* other is kept when its timestamp parses and is not before the cutoff
SweepKeeps(entry, cutoff) ==
    LET timestamp == Or(Get(entry, "ts"), Get(entry, "time")) IN
    IF ~Truthy(timestamp) THEN TRUE
    ELSE LET ts == DateParse(timestamp) IN ts.finite /\ ts.ms >= cutoff

\* an object file is cleared when its top-level timestamp is before the cutoff
SweepClears(data, cutoff) ==
    LET timestamp == Or(Or(Or(Get(data, "ts"), Get(data, "time")),
                           Get(data, "timestamp")), Get(data, "updatedAt"))
    IN /\ Truthy(timestamp)
       /\ DateParse(timestamp).finite
       /\ DateParse(timestamp).ms < cutoff

\* the filter of a series of the chart: a point without ts and t is kept, any
\* other is kept when its ts, or else its t, parses and is not before the
\* cutoff
SweepKeepsPoint(entry, cutoff) ==
    LET timestamp == Or(Get(entry, "ts"), Get(entry, "t")) IN
    IF ~Truthy(timestamp) THEN TRUE
    ELSE LET ts == DateParse(timestamp) IN ts.finite /\ ts.ms >= cutoff

\* the chart with each series that is an array filtered
SweepChart(chartData, cutoff) ==
    Obj([metric \in DOMAIN chartData.v |->
            IF chartData.v[metric].t = "arr"
            THEN Arr(SelectSeq(chartData.v[metric].v,
                               LAMBDA e : SweepKeepsPoint(e, cutoff)))
            ELSE chartData.v[metric]])

\* what the sweep writes to file i given what it read, Undefined for nothing
SweepRewrite(i, out, cutoff) ==
    IF Throws(out) THEN Undefined
    ELSE IF SweepFiles[i].kind = "array"
         THEN LET data == SafeValue(out, EmptyArr) IN
              IF data.t # "arr" THEN Undefined
              ELSE LET filtered == SelectSeq(data.v, LAMBDA e : SweepKeeps(e, cutoff)) IN
                   IF Len(filtered) < Len(data.v) THEN Arr(filtered) ELSE Undefined
         ELSE IF SweepFiles[i].kind = "object"
         THEN LET data == SafeValue(out, EmptyObj) IN
              IF data.t = "obj" /\ SweepClears(data, cutoff) THEN EmptyObj ELSE Undefined
         ELSE LET chartData == SafeValue(out, EmptyObj) IN
              IF chartData.t = "obj" /\ SweepChart(chartData, cutoff) # chartData
              THEN SweepChart(chartData, cutoff) ELSE Undefined

\* the sweep goes on to the file after the i-th, or ends
SweepAdvance(S, i) ==
    IF i < Len(SweepFiles)
    THEN /\ Commit(QueueEnter(S, Janitor, Request("read", SweepFiles[i + 1].name, Null)))
         /\ pc' = [pc EXCEPT ![Janitor] = "sweep_read"]
         /\ loc' = [loc EXCEPT ![Janitor].idx = i + 1]
         /\ UNCHANGED resp
    ELSE /\ Commit(S)
         /\ pc' = [pc EXCEPT ![Janitor] = "idle"]
         /\ loc' = [loc EXCEPT ![Janitor].idx = 0]
         /\ resp' = [resp EXCEPT ![Janitor] = [of |-> "sweep", status |-> 200, body |-> Null]]

\* a sweep without its try blocks: the error ends it and reaches the caller
SweepRethrown(S, i) ==
    /\ Commit(S)
    /\ pc' = [pc EXCEPT ![Janitor] = "idle"]
    /\ loc' = [loc EXCEPT ![Janitor].idx = 0]
    /\ resp' = [resp EXCEPT ![Janitor] = [of |-> "sweep", status |-> 500, body |-> Null]]

\* the catch block of a file's try: the error is logged, the loop goes on
SweepCaught(S, i) == SweepAdvance(S, i)

\* runAutoCleanup, up to the pending read of the first file
SweepStart ==
    /\ pc[Janitor] = "idle"
    /\ reqs' = reqs + 1
    /\ loc' = [loc EXCEPT ![Janitor] = [cutoff |-> now - AUTO_CLEANUP_MAX_AGE_MS, idx |-> 1]]
    /\ Call(Janitor, Request("read", SweepFiles[1].name, Null), "sweep_read")
    /\ UNCHANGED <<now, ticks, cache, resp>>

\* runAutoCleanup, a file is read: its pruned contents are queued for
\* writing when something is to be removed, else the sweep goes on
SweepRead ==
    /\ pc[Janitor] = "sweep_read"
    /\ CanComplete(Janitor)
    /\ LET i == loc[Janitor].idx
           rewrite == SweepRewrite(i, Outcome(Janitor), loc[Janitor].cutoff)
           S1 == Complete(Cur, Janitor)
       IN IF Throws(Outcome(Janitor)) THEN SweepCaught(S1, i)
          ELSE IF rewrite.t # "undefined"
          THEN /\ Commit(QueueEnter(S1, Janitor, Request("write", SweepFiles[i].name, rewrite)))
               /\ pc' = [pc EXCEPT ![Janitor] = "sweep_write"]
               /\ UNCHANGED <<loc, resp>>
          ELSE SweepAdvance(S1, i)
    /\ UNCHANGED <<now, ticks, cache, reqs>>

\* runAutoCleanup, the pruned file is written: the sweep goes on
SweepWrite ==
    /\ pc[Janitor] = "sweep_write"
    /\ CanComplete(Janitor)
    /\ SweepAdvance(Complete(Cur, Janitor), loc[Janitor].idx)
    /\ UNCHANGED <<now, ticks, cache, reqs>>

\* runAutoCleanup, readFile rejects with an error that is neither ENOENT nor
\* a SyntaxError (EACCES, EIO): readJsonFile and safelyReadJson rethrow it
SweepReadFails ==
    /\ pc[Janitor] = "sweep_read"
    /\ op[Janitor].phase = "running"
    /\ SweepCaught(QueueLeave(Cur, Janitor), loc[Janitor].idx)
    /\ UNCHANGED <<now, ticks, cache, reqs>>

\* runAutoCleanup, mkdir or writeFile rejects: writeJsonFile throws
\* HttpError 500; a file that writeFile had opened stays truncated
SweepWriteFails ==
    /\ pc[Janitor] = "sweep_write"
    /\ op[Janitor].phase \in {"running", "writing"}
    /\ SweepCaught(QueueLeave(Cur, Janitor), loc[Janitor].idx)
    /\ UNCHANGED <<now, ticks, cache, reqs>>

---------------------------------------------------------------------------
(* Specification of the document store: concurrent requests on two documents *)

InitWith(f0) ==
    /\ now = 0
    /\ ticks = 0
    /\ cache = NoCache
    /\ files = f0
    /\ fileLocks = [k \in Keys |-> NoLock]
    /\ op = [p \in Proc |-> IdleOp]
    /\ pc = [p \in Proc |-> "idle"]
    /\ loc = [p \in Proc |-> NoLoc]
    /\ resp = [p \in Proc |-> NoResp]
    /\ reqs = 0
    /\ arrivals = [k \in Keys |-> 0]
    /\ started = [k \in Keys |-> <<>>]
    /\ finished = [k \in Keys |-> <<>>]

Init ==
    InitWith([k \in Keys |->
                IF k = "dashboard" THEN Stored(Obj([counter |-> Num(0)])) ELSE Absent])

Next ==
    \/ Budget /\ \E p \in Clients, k \in StoreKeys : GetFile(p, k)
    \/ Budget /\ \E p \in Clients, k \in StoreKeys, body \in PutBodies : PutFile(p, k, body)
    \/ Budget /\ \E p \in Clients, k \in StoreKeys, body \in PatchBodies : PatchFile(p, k, body)
    \/ Budget /\ \E p \in Clients, k \in StoreKeys : DeleteFile(p, k)
    \/ \E p \in Clients : MergeRead(p)
    \/ \E p \in Clients : FileOpen(p)
    \/ \E p \in Clients : Respond(p)

Spec == Init /\ [][Next]_vars

---------------------------------------------------------------------------
(* Claims on the document store *)

\* C1: for every key at most one operation (read, write, merge or remove) is
\* executing at any moment; a file is only ever half written while the one
\* operation executing on it is the write that is writing it, so no read
\* is in flight on a half-written file and no two writes interleave.
C1_OneOperationPerKey ==
    /\ \A p, q \in Proc :
          (p # q /\ Executing(op[p]) /\ Executing(op[q])) => op[p].key # op[q].key
    /\ \A k \in Keys :
          files[k].st = "partial" =>
             \E p \in Proc : op[p].key = k /\ op[p].phase = "writing"
    /\ \A p \in Proc :
          (Executing(op[p]) /\ files[op[p].key].st = "partial") => op[p].phase = "writing"

\* a write is half done while a read and another operation wait on the same
\* file, and an operation on another file executes at the same time
C1_Witness ==
    \E p, q, r \in Proc :
        /\ op[p].phase = "writing"
        /\ op[q].phase = "waiting" /\ op[q].key = op[p].key /\ op[q].kind = "read"
        /\ Executing(op[r]) /\ op[r].key # op[p].key

\* C3: operations on one key execute in arrival order: the tasks start in
\* ticket order, end in ticket order, and a task starts only when every
\* operation that arrived before it has ended.
C3_ArrivalOrder ==
    \A k \in Keys :
        /\ \A i \in 1..Len(started[k]) : started[k][i] = i
        /\ \A i \in 1..Len(finished[k]) : finished[k][i] = i
        /\ Len(started[k]) <= Len(finished[k]) + 1

\* the second arrival executes after the first ended while the third waits
C3_Witness ==
    \E k \in Keys :
        /\ started[k] = <<1, 2>>
        /\ finished[k] = <<1>>
        /\ \E p \in Proc : op[p].key = k /\ op[p].phase = "waiting" /\ op[p].ticket = 3

---------------------------------------------------------------------------
(* Specification of N callers that each increment a counter through the    *)
(* document endpoints: GET the document, then PATCH {counter: counter+1}   *)

CounterKey == "dashboard"

\* the counter a caller reads off a GET response (0 when there is none)
CounterOf(r) ==
    IF r.status = 200 /\ Get(r.body, "counter").t = "number"
    THEN Get(r.body, "counter").v ELSE 0

\* the caller reads the document
IncrementRead(p) ==
    /\ resp[p] = NoResp
    /\ GetFile(p, CounterKey)

\* the caller merges the counter it computed from what it read
IncrementMerge(p) ==
    /\ resp[p].of = "get"
    /\ PatchFile(p, CounterKey, Obj([counter |-> Num(CounterOf(resp[p]) + 1)]))

NextCounter ==
    \/ \E p \in Clients : IncrementRead(p)
    \/ \E p \in Clients : IncrementMerge(p)
    \/ \E p \in Clients : MergeRead(p)
    \/ \E p \in Clients : FileOpen(p)
    \/ \E p \in Clients : Respond(p)

SpecCounter == Init /\ [][NextCounter]_vars

AllIncremented == \A p \in Clients : resp[p].of = "patch"
FinalCounter == Get(files[CounterKey].val, "counter")
MergedCounters == {Get(resp[p].body, "counter").v : p \in Clients}

\* C2 as stated: after N concurrent merge(name, {counter: counter+1}) calls
\* the counter is N.
C2_FinalCounterIsN ==
    AllIncremented => FinalCounter = Num(NumClients)

\* C2 amended: merge stores the value the caller computed, so after the N
\* calls the counter is the value one of them wrote, between 1 and N; it is
\* N only when the N merges wrote 1, 2, .., N, each caller having read the
\* result of the one before.
C2_FinalCounterIsLastMerge ==
    AllIncremented =>
        /\ FinalCounter.t = "number"
        /\ FinalCounter.v \in MergedCounters
        /\ FinalCounter.v \in 1..NumClients
        /\ FinalCounter.v = NumClients => MergedCounters = 1..NumClients

\* every caller computed counter+1 from the starting document and the
\* counter ends as 1
C2_Witness ==
    /\ AllIncremented
    /\ MergedCounters = {1}
    /\ FinalCounter = Num(1)

---------------------------------------------------------------------------
(* Specification of an event log: concurrent appends and retention sweeps *)

\* an event recorded 31 days and one minute before the start of the run
OldEvent == Obj([ts |-> Iso(0 - AUTO_CLEANUP_MAX_AGE_MS - 1), lightOn |-> Bool(FALSE)])

LogDeltas == {EVENT_WINDOW_MS, EVENT_WINDOW_MS + 1}

InitLog ==
    \E log \in {Absent, Stored(Arr(<<OldEvent>>))} :
        InitWith([k \in Keys |-> IF k = LogFile THEN log ELSE Absent])

NextLog ==
    \/ CallBudget /\ \E p \in Callers, event \in LogEvents, windowMs \in LogWindows,
                    maxEntries \in LogCaps : AppendStart(p, event, windowMs, maxEntries)
    \/ \E p \in Callers : AppendWrite(p)
    \/ \E p \in Callers : AppendDone(p)
    \/ \E p \in Proc : FileOpen(p)
    \/ CallBudget /\ SweepStart
    \/ SweepRead
    \/ SweepWrite
    \/ \E d \in LogDeltas : Tick(d)

SpecLog == InitLog /\ [][NextLog]_vars

LogNow == ensureArray(files[LogFile].val)
LogNext == ensureArray(files'[LogFile].val)

\* C4: a sweep does not take away what a live writer appended to a log it
\* is pruning: when the sweep's write of the log completes, every entry the
\* log held that is dated within the maximum age is still in the log.
C4_SweepKeepsLiveEntries ==
    [][(pc[Janitor] = "sweep_write" /\ pc'[Janitor] # "sweep_write"
          /\ op[Janitor].key = LogFile)
        => \A i \in 1..Len(LogNow) :
              (DateParse(Get(LogNow[i], "ts")).finite
                 /\ DateParse(Get(LogNow[i], "ts")).ms >= loc[Janitor].cutoff)
              => \E j \in 1..Len(LogNext) : LogNext[j] = LogNow[i]]_vars

\* C5: the log an append produces holds at most maxEntries entries, each
\* with a timestamp that parses and is not before the cutoff, the time at
\* which the append filtered the log less windowMs.
C5_LogBounds ==
    [][\A p \in Clients :
          (pc[p] = "append_write" /\ pc'[p] = "idle")
          => /\ files'[LogFile].st = "ok"
             /\ Len(LogNext) <= loc[p].maxEntries
             /\ \A i \in 1..Len(LogNext) :
                   /\ DateParse(Get(LogNext[i], "ts")).finite
                   /\ DateParse(Get(LogNext[i], "ts")).ms >= loc[p].cutoff]_vars

\* the entries of the pushed list of p that the filter keeps
InWindow(p) ==
    {i \in 1..Len(loc[p].events.v) :
        /\ Get(loc[p].events.v[i], "ts").t = "isodate"
        /\ Get(loc[p].events.v[i], "ts").v >= loc[p].cutoff}

\* an append has returned a full log after its filter dropped an entry older
\* than the window, another after its slice dropped an entry within it
C5_Witness ==
    \E p, q \in Callers :
        /\ pc[p] = "idle" /\ resp[p].of = "append" /\ resp[p].body.t = "arr"
        /\ pc[q] = "idle" /\ resp[q].of = "append" /\ resp[q].body.t = "arr"
        /\ Len(resp[p].body.v) = MaxLogEntries
        /\ Len(resp[q].body.v) = MaxLogEntries
        /\ Cardinality(InWindow(p)) < Len(loc[p].events.v)
        /\ Cardinality(InWindow(q)) > MaxLogEntries

---------------------------------------------------------------------------
(* Specification of the notification list: concurrent notifications, push
   acknowledgements and retention sweeps *)

\* a notification made 31 days and one minute before the start of the run
OldNotification ==
    Obj([message |-> Str(MOTION_NOTIFICATION), type |-> Str("info"),
         time |-> Iso(0 - AUTO_CLEANUP_MAX_AGE_MS - 1), pushed |-> Bool(FALSE)])

NotifDeltas == {NOTIFICATION_SUPPRESS_MS - 1, NOTIFICATION_SUPPRESS_MS}

InitNotif ==
    \E list \in {Absent, Stored(Arr(<<OldNotification>>))} :
        InitWith([k \in Keys |-> IF k = NOTIFICATIONS_FILE THEN list ELSE Absent])

NextNotif ==
    \/ CallBudget /\ \E p \in Callers, n \in Notices : NotifyStart(p, n)
    \/ \E p \in Callers : NotifyDecide(p)
    \/ \E p \in Callers : NotifyDone(p)
    \/ CallBudget /\ \E p \in Callers, times \in MarkBodies : MarkPushedStart(p, times)
    \/ \E p \in Callers : MarkPushedMap(p)
    \/ \E p \in Callers : MarkPushedDone(p)
    \/ \E p \in Callers : FileOpen(p)
    \/ \E d \in NotifDeltas : Tick(d)

SpecNotif == InitNotif /\ [][NextNotif]_vars

ListNow == ensureArray(files[NOTIFICATIONS_FILE].val)
ListNext == ensureArray(files'[NOTIFICATIONS_FILE].val)

\* the list that the pending read of p returns
ListRead(p) == ensureArray(SafeValue(Outcome(p), EmptyArr))

\* the positions of the entries of a list that carry a message
Carrying(items, message) ==
    {i \in 1..Len(items) : Get(items[i], "message") = Str(message)}

\* the age of an entry is known and below the suppression window
Young(entry) ==
    /\ Get(entry, "time").t = "isodate"
    /\ now - Get(entry, "time").v < NOTIFICATION_SUPPRESS_MS

\* p reads the list of notifications in this step
Decides(p) == pc[p] = "notify_read" /\ pc'[p] # "notify_read" /\ ~Throws(Outcome(p))

\* C6: a notification whose message has an entry younger than the
\* suppression window changes nothing: no write is queued, the list is the
\* one that was read, and it holds exactly one entry with the message.
C6_SuppressedIsNoOp ==
    [][\A p \in Clients :
          (Decides(p) /\ \E i \in Carrying(ListRead(p), loc[p].message) :
                             Young(ListRead(p)[i]))
          => /\ pc'[p] = "idle"
             /\ op'[p] = IdleOp
             /\ files' = files
             /\ ListNext = ListRead(p)
             /\ Cardinality(Carrying(ListNext, loc[p].message)) = 1]_vars

\* a notification has returned without writing because its message was
\* listed with a young entry
C6_Witness ==
    \E p \in Clients :
        /\ resp[p].of = "notify" /\ pc[p] = "idle"
        /\ Truthy(loc[p].existing)
        /\ \E i \in 1..Len(loc[p].notifications.v) :
              loc[p].notifications.v[i] = loc[p].existing

\* C7 as stated: a notification whose message is listed once, with an entry
\* older than the suppression window, leaves two entries in the list.
C7_TwoEntriesAfterWindow ==
    [][\A p \in Clients :
          (/\ Decides(p)
           /\ Len(ListRead(p)) = 1
           /\ Carrying(ListRead(p), loc[p].message) = {1}
           /\ ~Young(ListRead(p)[1]))
          => op'[p].kind = "write" /\ Len(op'[p].arg.v) = 2]_vars

\* C7, amended: a notification whose message is listed with an entry older
\* than the suppression window queues the write of a list that starts with
\* a fresh entry (the time of the call, pushed false), followed by the
\* entries of the other messages in their order: the old entry is gone and
\* the message has one entry.
C7_StaleEntryReplaced ==
    [][\A p \in Clients :
          (/\ Decides(p)
           /\ Carrying(ListRead(p), loc[p].message) # {}
           /\ \A i \in Carrying(ListRead(p), loc[p].message) : ~Young(ListRead(p)[i]))
          => /\ op'[p].kind = "write" /\ op'[p].key = NOTIFICATIONS_FILE
             /\ LET list == op'[p].arg.v IN
                /\ Len(list) >= 1
                /\ Get(list[1], "message") = Str(loc[p].message)
                /\ Get(list[1], "time") = Iso(now)
                /\ Get(list[1], "pushed") = Bool(FALSE)
                /\ Carrying(list, loc[p].message) = {1}
                /\ Tail(list) = SelectSeq(ListRead(p),
                       LAMBDA e : Get(e, "message") # Str(loc[p].message))]_vars

\* a notification has replaced the old entry of its message: the list it
\* wrote has one entry, made at the time of the call
C7_Witness ==
    \E p \in Clients :
        /\ resp[p].of = "notify" /\ pc[p] = "idle"
        /\ loc[p].existing = OldNotification
        /\ Len(loc[p].notifications.v) = 1
        /\ ListNow = <<JsonText(loc[p].notifications.v[1])>>
        /\ Get(ListNow[1], "time").v >= 0

\* C8: the list holds at most one entry for any message.
C8_OneEntryPerMessage ==
    \A n \in Notices : Cardinality(Carrying(ListNow, n.message)) <= 1

\* two notifications with the same message, neither of which read an entry
\* for it, have both written the list
C8_Witness ==
    \E p, q \in Clients :
        /\ p # q
        /\ resp[p].of = "notify" /\ resp[q].of = "notify"
        /\ pc[p] = "idle" /\ pc[q] = "idle"
        /\ loc[p].message = loc[q].message
        /\ ~Truthy(loc[p].existing) /\ ~Truthy(loc[q].existing)
        /\ Cardinality(Carrying(ListNow, loc[p].message)) = 1

\* C9: an entry, known by its message and time, that is pushed stays pushed
\* while it is in the list.
C9_PushedNeverReverts ==
    [][\A i \in 1..Len(ListNow), j \in 1..Len(ListNext) :
          (/\ Get(ListNow[i], "message") = Get(ListNext[j], "message")
           /\ Get(ListNow[i], "time") = Get(ListNext[j], "time")
           /\ Truthy(Get(ListNow[i], "pushed")))
          => Truthy(Get(ListNext[j], "pushed"))]_vars

\* the positions that an acknowledgement of times is to mark
ToMark(items, times) ==
    {i \in 1..Len(items) :
        /\ \E k \in 1..Len(times) : times[k] = Get(items[i], "time")
        /\ Get(items[i], "pushed") # Bool(TRUE)}

\* p reads the list to acknowledge in this step
Maps(p) == pc[p] = "mark_read" /\ pc'[p] # "mark_read" /\ ~Throws(Outcome(p))

\* C10: an acknowledgement sets pushed on the entries whose time is among
\* times and that are not pushed, and on no other; it changes no other field
\* and no other entry, and answers the number of entries it set. When there
\* is none it writes nothing and answers 0, and the list it writes has none.
C10_AcknowledgeExact ==
    [][\A p \in Clients :
          /\ Maps(p) =>
               LET read == ListRead(p)
                   hit == ToMark(read, loc[p].times.v)
               IN IF hit = {}
                  THEN /\ op'[p] = IdleOp /\ files' = files
                       /\ resp'[p] = [of |-> "mark-pushed", status |-> 200, body |-> Num(0)]
                  ELSE /\ op'[p].kind = "write" /\ op'[p].key = NOTIFICATIONS_FILE
                       /\ loc'[p].updated = Cardinality(hit)
                       /\ LET list == op'[p].arg.v IN
                          /\ Len(list) = Len(read)
                          /\ \A i \in 1..Len(read) :
                                IF i \in hit
                                THEN /\ Get(list[i], "pushed") = Bool(TRUE)
                                     /\ DOMAIN list[i].v = DOMAIN read[i].v \cup {"pushed"}
                                     /\ \A f \in DOMAIN read[i].v \ {"pushed"} :
                                           list[i].v[f] = read[i].v[f]
                                ELSE list[i] = read[i]
                          /\ ToMark(list, loc[p].times.v) = {}
          /\ (pc[p] = "mark_write" /\ pc'[p] = "idle")
               => /\ ListNext = op[p].arg.v
                  /\ resp'[p] = [of |-> "mark-pushed", status |-> 200,
                                 body |-> Num(loc[p].updated)]
                  /\ loc[p].updated > 0]_vars

\* an acknowledgement has set one entry, the same acknowledgement made
\* again has set none, and the entry is in the list, pushed
C10_Witness ==
    \E p, q \in Clients :
        /\ p # q
        /\ resp[p] = [of |-> "mark-pushed", status |-> 200, body |-> Num(1)]
        /\ resp[q] = [of |-> "mark-pushed", status |-> 200, body |-> Num(0)]
        /\ pc[p] = "idle" /\ pc[q] = "idle"
        /\ loc[p].times = loc[q].times
        /\ \E i \in 1..Len(ListNow) :
              /\ Includes(loc[p].times.v, Get(ListNow[i], "time"))
              /\ Get(ListNow[i], "pushed") = Bool(TRUE)

---------------------------------------------------------------------------
(* Specification of one document under direct calls of readJsonFile,
   writeJsonFile and mergeJsonFile, as the endpoints of the server make them
   with values built in the process (fields may be undefined) *)

DocKey == "dashboard"

\* the contents the document starts with
DocInits ==
    {Absent,
     Stored(Obj([petWeight |-> Num(4), lastMeal |-> Num(0)])),
     Stored(Arr(<<Num(7)>>)),
     Stored(Num(5)),
     Stored(Null)}

\* the values written and merged: as app.post("/feeding/schedule") builds
\* them, with undefined fields, and a list as appendNotification builds it
DocValues ==
    {Obj([petWeight |-> Num(5), mealAmount |-> Undefined]),
     Obj([lastMeal |-> Undefined]),
     Arr(<<Obj([message |-> Str("m"), pushType |-> Undefined])>>)}

\* readJsonFile(name), up to the pending readFile
ReadCall(p) ==
    /\ pc[p] = "idle"
    /\ reqs' = reqs + 1
    /\ loc' = [loc EXCEPT ![p] = [kind |-> "read", arg |-> Null]]
    /\ Call(p, Request("read", DocKey, Null), "store")
    /\ UNCHANGED <<now, ticks, cache, resp>>

\* writeJsonFile(name, payload), up to the pending mkdir
WriteCall(p, payload) ==
    /\ pc[p] = "idle"
    /\ reqs' = reqs + 1
    /\ loc' = [loc EXCEPT ![p] = [kind |-> "write", arg |-> payload]]
    /\ Call(p, Request("write", DocKey, pruneUndefined(payload)), "store")
    /\ UNCHANGED <<now, ticks, cache, resp>>

\* mergeJsonFile(name, mutation), up to the pending readFile
MergeCall(p, mutation) ==
    /\ pc[p] = "idle"
    /\ reqs' = reqs + 1
    /\ loc' = [loc EXCEPT ![p] = [kind |-> "merge", arg |-> mutation]]
    /\ Call(p, Request("merge", DocKey, mutation), "store")
    /\ UNCHANGED <<now, ticks, cache, resp>>

\* the call returns its value or throws its HttpError
StoreReturn(p) ==
    /\ pc[p] = "store"
    /\ CanComplete(p)
    /\ Commit(Complete(Cur, p))
    /\ pc' = [pc EXCEPT ![p] = "idle"]
    /\ resp' = [resp EXCEPT ![p] =
                  LET out == Outcome(p) IN
                  [of |-> loc[p].kind, status |-> IF out.err # 0 THEN out.err ELSE 200,
                   body |-> out.val]]
    /\ UNCHANGED <<now, ticks, cache, loc, reqs>>

InitDoc ==
    \E doc \in DocInits :
        InitWith([k \in Keys |-> IF k = DocKey THEN doc ELSE Absent])

NextDoc ==
    \/ CallBudget /\ \E p \in Callers : ReadCall(p)
    \/ CallBudget /\ \E p \in Callers, payload \in DocValues : WriteCall(p, payload)
    \/ CallBudget /\ \E p \in Callers, mutation \in DocValues : MergeCall(p, mutation)
    \/ \E p \in Callers : MergeRead(p)
    \/ \E p \in Callers : FileOpen(p)
    \/ \E p \in Callers : StoreReturn(p)

SpecDoc == InitDoc /\ [][NextDoc]_vars

\* p's merge computes next from the document it has read in this step
Merges(p) == op[p].kind = "merge" /\ op[p].phase = "running" /\ op'[p].phase = "merging"

\* the fields of the document a merge starts from: none when it is missing
FieldsRead(k) == IF files[k].st = "absent" THEN <<>> ELSE files[k].val.v

\* C11: a merge of an object into a missing document or into an object:
\* every field of the partial with a defined value has that value in the
\* result, every field of the document that the partial does not name keeps
\* its value, the result has no other field and no undefined field, and the
\* value returned is the value the file holds.
C11_MergeIsShallowUnion ==
    [][\A p \in Callers :
          /\ (/\ Merges(p)
              /\ op[p].arg.t = "obj"
              /\ (files[op[p].key].st = "absent" \/ files[op[p].key].val.t = "obj"))
             => LET partial == op[p].arg.v
                    current == FieldsRead(op[p].key)
                    next == op'[p].arg
                IN /\ next.t = "obj"
                   /\ \A f \in DOMAIN partial :
                         partial[f] # Undefined
                         => f \in DOMAIN next.v /\ next.v[f] = partial[f]
                   /\ \A f \in (DOMAIN current) \ (DOMAIN partial) :
                         f \in DOMAIN next.v /\ next.v[f] = current[f]
                   /\ DOMAIN next.v \subseteq (DOMAIN current) \cup (DOMAIN partial)
                   /\ \A f \in DOMAIN next.v : next.v[f] # Undefined
          /\ (pc[p] = "store" /\ pc'[p] = "idle" /\ op[p].kind = "merge"
                /\ loc[p].arg.t = "obj")
             => /\ resp'[p].status = 200
                /\ files'[op[p].key] = Stored(resp'[p].body)]_vars

\* a merge with an undefined field has returned a document that keeps a
\* field of the previous contents and takes a field of the partial
C11_Witness ==
    \E p \in Callers :
        /\ pc[p] = "idle" /\ resp[p].of = "merge" /\ resp[p].status = 200
        /\ loc[p].arg = Obj([petWeight |-> Num(5), mealAmount |-> Undefined])
        /\ resp[p].body = Obj([petWeight |-> Num(5), lastMeal |-> Num(0)])
        /\ files[DocKey] = Stored(resp[p].body)

\* C12: a merge into a document that is no object (an array, a number)
\* replaces it: the result is the partial without its undefined fields and
\* has nothing of the previous contents.
C12_NonObjectReplaced ==
    [][\A p \in Callers :
          (/\ Merges(p)
           /\ files[op[p].key].st = "ok"
           /\ files[op[p].key].val.t # "obj")
          => LET partial == op[p].arg
                 next == op'[p].arg
             IN IF partial.t = "obj"
                THEN /\ next.t = "obj"
                     /\ DOMAIN next.v = {f \in DOMAIN partial.v : partial.v[f] # Undefined}
                     /\ \A f \in DOMAIN next.v : next.v[f] = partial.v[f]
                ELSE next = partial]_vars

\* p's write, p's read of the document ends in this step
WriteEnds(p) == pc[p] = "store" /\ pc'[p] = "idle" /\ op[p].kind = "write"
ReadEnds(p) == pc[p] = "store" /\ pc'[p] = "idle" /\ op[p].kind = "read"

\* v without the undefined fields of the value itself
TopStripped(v) ==
    IF v.t = "obj"
    THEN Obj([f \in {g \in DOMAIN v.v : v.v[g] # Undefined} |-> v.v[f]])
    ELSE v

\* w is v without its undefined fields at every depth, an undefined element
\* of an array being null in w
RECURSIVE StrippedOf(_, _)
StrippedOf(v, w) ==
    CASE v.t = "obj" ->
            /\ w.t = "obj"
            /\ DOMAIN w.v = {f \in DOMAIN v.v : v.v[f] # Undefined}
            /\ \A f \in DOMAIN w.v : StrippedOf(v.v[f], w.v[f])
      [] v.t = "arr" ->
            /\ w.t = "arr"
            /\ Len(w.v) = Len(v.v)
            /\ \A i \in 1..Len(v.v) :
                  IF v.v[i] = Undefined THEN w.v[i] = Null
                  ELSE StrippedOf(v.v[i], w.v[i])
      [] OTHER -> w = v

\* C13 as stated: the document written is the value without its undefined
\* top-level fields, and a read returns the document as it is.
C13_RoundTripTopLevel ==
    [][\A p \in Callers :
          /\ WriteEnds(p) => files'[DocKey] = Stored(TopStripped(loc[p].arg))
          /\ (ReadEnds(p) /\ files[DocKey].st = "ok")
             => resp'[p] = [of |-> "read", status |-> 200, body |-> files[DocKey].val]]_vars

\* C13, amended: the document written is the value without its undefined
\* fields at every depth (an undefined element of an array is null), and a
\* read returns the document as it is.
C13_RoundTrip ==
    [][\A p \in Callers :
          /\ WriteEnds(p)
             => /\ files'[DocKey].st = "ok"
                /\ StrippedOf(loc[p].arg, files'[DocKey].val)
          /\ (ReadEnds(p) /\ files[DocKey].st = "ok")
             => resp'[p] = [of |-> "read", status |-> 200, body |-> files[DocKey].val]]_vars

\* a list with an entry that has an undefined field was written, and the
\* read that followed has returned the list with the entry less that field
C13_Witness ==
    \E p, q \in Callers :
        /\ pc[p] = "idle" /\ pc[q] = "idle"
        /\ resp[q].of = "write" /\ resp[q].status = 200
        /\ loc[q].arg = Arr(<<Obj([message |-> Str("m"), pushType |-> Undefined])>>)
        /\ resp[p] = [of |-> "read", status |-> 200,
                      body |-> Arr(<<Obj([message |-> Str("m")])>>)]

---------------------------------------------------------------------------
(* resolveFilePath. A name is a sequence of tokens: a word without dots,
   slashes or blanks, ".", "/", "\", " ", or the five characters ".json".
   Paths are those of a POSIX build of node. *)

NameTokens == {"dashboard", "settings", ".", "/", "\\", " ", ".json"}

RECURSIVE TrimStart(_)
TrimStart(s) == IF s # <<>> /\ Head(s) = " " THEN TrimStart(Tail(s)) ELSE s

RECURSIVE TrimEnd(_)
TrimEnd(s) ==
    IF s # <<>> /\ s[Len(s)] = " " THEN TrimEnd(SubSeq(s, 1, Len(s) - 1)) ELSE s

\* String.prototype.trim
Trim(s) == TrimEnd(TrimStart(s))

\* path.isAbsolute
IsAbsolute(s) == s # <<>> /\ Head(s) = "/"

\* trimmed.replace(/\\/g, "/")
Sanitise(s) == [i \in 1..Len(s) |-> IF s[i] = "\\" THEN "/" ELSE s[i]]

\* the two characters ".." start at position i of s
DotDotAt(s, i) == i < Len(s) /\ s[i] = "." /\ s[i + 1] \in {".", ".json"}

IncludesDotDotNever(s) == FALSE

\* sanitised.includes("..")
IncludesDotDot(s) == \E i \in 1..Len(s) : DotDotAt(s, i)

\* sanitised.endsWith(".json") ? sanitised : `${sanitised}.json`
WithSuffix(s) == IF s[Len(s)] = ".json" THEN s ELSE Append(s, ".json")

\* the segments of a path between its slashes
RECURSIVE Segments(_, _)
Segments(s, seg) ==
    IF s = <<>> THEN <<seg>>
    ELSE IF Head(s) = "/" THEN <<seg>> \o Segments(Tail(s), <<>>)
    ELSE Segments(Tail(s), Append(seg, Head(s)))

\* the database folder, as segments below the root
dbFolder == <<<<"srv">>, <<"database">>>>

\* the path reached from path acc by the segments segs: an empty and a "."
\* segment stay, a ".." segment goes up, not above the root
RECURSIVE Walk(_, _)
Walk(acc, segs) ==
    IF segs = <<>> THEN acc
    ELSE IF Head(segs) = <<>> \/ Head(segs) = <<".">> THEN Walk(acc, Tail(segs))
    ELSE IF Head(segs) = <<".", ".">>
         THEN Walk(SubSeq(acc, 1, Len(acc) - 1), Tail(segs))
    ELSE Walk(Append(acc, Head(segs)), Tail(segs))

\* path.resolve(dbFolder, normalized): an absolute second argument is
\* resolved from the root
PathResolve(base, s) ==
    Walk(IF IsAbsolute(s) THEN <<>> ELSE base, Segments(s, <<>>))

\* the length of the longest common prefix of two paths
RECURSIVE Common(_, _)
Common(a, b) ==
    IF a # <<>> /\ b # <<>> /\ Head(a) = Head(b) THEN 1 + Common(Tail(a), Tail(b)) ELSE 0

\* path.relative(from, to)
PathRelative(from, to) ==
    LET c == Common(from, to) IN
    [i \in 1..(Len(from) - c) |-> <<".", ".">>] \o SubSeq(to, c + 1, Len(to))

\* relative.startsWith("..")
StartsWithDotDot(rel) == rel # <<>> /\ DotDotAt(Head(rel), 1)

\* resolveFilePath: err is the status of the HttpError thrown, 0 when the
\* path is returned; path is the file path relative to dbFolder
resolveFilePath(rawName) ==
    LET trimmed == Trim(rawName)
        sanitised == Sanitise(trimmed)
        filePath == PathResolve(dbFolder, WithSuffix(sanitised))
        relative == PathRelative(dbFolder, filePath)
    IN IF trimmed = <<>> THEN [err |-> 400, path |-> <<>>]
       ELSE IF IsAbsolute(trimmed) THEN [err |-> 400, path |-> <<>>]
       ELSE IF IncludesDotDot(sanitised) THEN [err |-> 400, path |-> <<>>]
       ELSE IF StartsWithDotDot(relative) THEN [err |-> 400, path |-> <<>>]
       ELSE [err |-> 0, path |-> relative]

\* the document of the model that a file path is, "none" for any other file
FileKey(path) ==
    IF Len(path) = 1 /\ Len(path[1]) = 2 /\ path[1][2] = ".json" /\ path[1][1] \in Keys
    THEN path[1][1] ELSE "none"

\* all names of at most MaxNameLen tokens
Names == UNION {[1..n -> NameTokens] : n \in 0..MaxNameLen}

\* the names of the calls: "../../etc/passwd", "/etc/passwd", "a/../b" with
\* the words of the model, the empty and the blank name, a name that starts
\* with a backslash, and names of the documents
CalledNames ==
    {<<".", ".", "/", ".", ".", "/", "settings", "/", "dashboard">>,
     <<"/", "settings", "/", "dashboard">>,
     <<"dashboard", "/", ".", ".", "/", "settings">>,
     <<>>, <<" ">>, <<"\\", "dashboard">>,
     <<"dashboard">>, <<" ", "settings", ".json", " ">>, <<".", "/", "dashboard">>}

NamedPayload == Obj([x |-> Num(1)])

\* readJsonFile(name), writeJsonFile(name, payload), mergeJsonFile(name,
\* mutation) and the handler of app.delete: the name is resolved, then the
\* operation enters the queue of its file
NamedCall(p, kind, name) ==
    LET resolved == resolveFilePath(name) IN
    /\ pc[p] = "idle"
    /\ resolved.err = 0 => FileKey(resolved.path) \in Keys
    /\ reqs' = reqs + 1
    /\ loc' = [loc EXCEPT ![p] = [kind |-> kind, arg |-> NamedPayload, name |-> name]]
    /\ IF resolved.err # 0
       THEN /\ resp' = [resp EXCEPT ![p] = [of |-> kind, status |-> resolved.err, body |-> Null]]
            /\ StoreUnchanged
            /\ UNCHANGED <<now, ticks, cache, pc>>
       ELSE /\ Call(p, Request(kind, FileKey(resolved.path),
                               IF kind \in {"write", "merge"} THEN NamedPayload ELSE Null),
                    "store")
            /\ UNCHANGED <<now, ticks, cache, resp>>

InitPath ==
    \E doc \in {Absent, Stored(Obj([petWeight |-> Num(4)]))} :
        InitWith([k \in Keys |-> IF k = DocKey THEN doc ELSE Absent])

NextPath ==
    \/ CallBudget /\ \E p \in Callers, kind \in {"read", "write", "merge", "remove"},
                        name \in CalledNames : NamedCall(p, kind, name)
    \/ \E p \in Callers : MergeRead(p)
    \/ \E p \in Callers : FileOpen(p)
    \/ \E p \in Callers : StoreReturn(p)

SpecPath == InitPath /\ [][NextPath]_vars

\* a segment of the name is "..", with either slash
HasTraversal(name) ==
    \E i \in 1..Len(Segments(Sanitise(name), <<>>)) :
        Segments(Sanitise(name), <<>>)[i] = <<".", ".">>

\* the name is empty, absolute or has a ".." segment
Unsafe(name) ==
    \/ \A i \in 1..Len(name) : name[i] = " "
    \/ Trim(name)[1] = "/"
    \/ HasTraversal(Trim(name))

\* C14: resolveFilePath rejects every name that is empty, absolute or has a
\* ".." segment, and a path it returns has no ".." segment and is not empty:
\* it lies in the database folder. A call with a rejected name answers 400
\* and leaves the files, the lock map and the queues as they are; a call
\* with any other name enters the queue of a document.
C14_UnsafeNamesRejected ==
    /\ \A name \in Names \cup CalledNames :
          LET resolved == resolveFilePath(name) IN
          /\ Unsafe(name) => resolved.err = 400
          /\ resolved.err = 0 =>
                /\ resolved.path # <<>>
                /\ \A i \in 1..Len(resolved.path) : resolved.path[i] # <<".", ".">>
    /\ [][\A p \in Callers :
             (pc[p] = "idle" /\ loc'[p] # loc[p] /\ "name" \in DOMAIN loc'[p])
             => IF Unsafe(loc'[p].name)
                THEN /\ resp'[p] = [of |-> loc'[p].kind, status |-> 400, body |-> Null]
                     /\ pc'[p] = "idle"
                     /\ UNCHANGED <<files, fileLocks, op, arrivals, started, finished>>
                ELSE resp'[p].status = 400 \/ op'[p].key \in Keys]_vars

\* the three names of the spec were rejected, for a read, a write, a merge
\* or a remove, with the document and the lock map untouched
C14_Witness ==
    \E p \in Callers :
        /\ pc[p] = "idle" /\ resp[p].status = 400
        /\ "name" \in DOMAIN loc[p]
        /\ loc[p].name = <<".", ".", "/", ".", ".", "/", "settings", "/", "dashboard">>
        /\ resp[p].of = "merge"
        /\ \A k \in Keys : fileLocks[k] = NoLock /\ arrivals[k] = 0

---------------------------------------------------------------------------
(* Specification of the retention sweep: runAutoCleanup with no other writer *)

DAY == 24 * 60

\* entries of a log: dated 32 days ago, exactly 31 days ago, 1 day ago,
\* without a timestamp, dated by `time` alone, and with a ts that is no date
Expired32 == Obj([ts |-> Iso(0 - 32 * DAY), lightOn |-> Bool(TRUE)])
Aged31 == Obj([ts |-> Iso(0 - AUTO_CLEANUP_MAX_AGE_MS), lightOn |-> Bool(FALSE)])
Recent1 == Obj([ts |-> Iso(0 - DAY), lightOn |-> Bool(TRUE)])
Undated == Obj([lightOn |-> Bool(FALSE)])
Garbled == Obj([ts |-> Str("yesterday"), lightOn |-> Bool(TRUE)])
RecentNotification ==
    Obj([message |-> Str(WATER_LOW_NOTIFICATION), type |-> Str("warning"),
         time |-> Iso(0 - DAY), pushed |-> Bool(TRUE)])

\* an entry as app.post("/actions") pushes it
ActionEntry(ms) == Obj([ts |-> Iso(ms), action |-> Str("dispense_food")])

SweepLogs ==
    {Absent,
     Stored(Arr(<<Recent1, Undated>>)),
     Stored(Arr(<<Expired32, Recent1, Undated>>)),
     Stored(Arr(<<Recent1, Expired32, Aged31>>)),
     Stored(Arr(<<Garbled, Aged31>>)),
     Stored(Obj([ts |-> Iso(0 - 32 * DAY)]))}

SweepLists ==
    {Absent,
     Stored(Arr(<<RecentNotification>>)),
     Stored(Arr(<<RecentNotification, OldNotification>>))}

SweepActions ==
    {Absent,
     Stored(Arr(<<ActionEntry(0 - DAY)>>)),
     Stored(Arr(<<ActionEntry(0 - 32 * DAY), ActionEntry(0 - DAY)>>))}

SweepObjects ==
    {Absent,
     Stored(Obj([petWeight |-> Num(4), lastMealTime |-> Iso(0 - 32 * DAY)])),
     Stored(Obj([petWeight |-> Num(4), updatedAt |-> Iso(0 - 32 * DAY)])),
     Stored(Obj([petWeight |-> Num(4), updatedAt |-> Iso(0 - DAY)]))}

SweepDeltas == {AUTO_CLEANUP_INTERVAL_MS}

InitSweep ==
    \E log \in SweepLogs, list \in SweepLists, actions \in SweepActions,
       object \in SweepObjects :
        InitWith([k \in Keys |->
                    CASE k = WATER_EVENTS_FILE -> log
                      [] k = NOTIFICATIONS_FILE -> list
                      [] k = ACTIONS_FILE -> actions
                      [] k = "dashboard" -> object
                      [] OTHER -> Absent])

NextSweep ==
    \/ CallBudget /\ SweepStart
    \/ SweepRead
    \/ SweepWrite
    \/ FileOpen(Janitor)
    \/ \E d \in SweepDeltas : Tick(d)

SpecSweep == InitSweep /\ [][NextSweep]_vars

---------------------------------------------------------------------------
(* Claims on the retention sweep *)

\* the timestamp of an entry: ts, falling back to time
Timestamp(entry) ==
    IF Truthy(Get(entry, "ts")) THEN Get(entry, "ts") ELSE Get(entry, "time")

\* the entry is dated, and before the cutoff
Expired(entry, cutoff) ==
    /\ Timestamp(entry).t = "isodate"
    /\ Timestamp(entry).v < cutoff

\* the entry is dated at or after the cutoff, or it has no timestamp
Retained(entry, cutoff) ==
    \/ Timestamp(entry).t = "isodate" /\ Timestamp(entry).v >= cutoff
    \/ ~Truthy(Timestamp(entry))

\* the object has none of the top-level timestamp fields
NoTopLevelTimestamp(data) ==
    \A f \in {"ts", "time", "timestamp", "updatedAt"} : f \notin DOMAIN data.v

\* the sweep has read the file it stands at
SweepReads ==
    /\ pc[Janitor] = "sweep_read"
    /\ (pc'[Janitor] # pc[Janitor] \/ loc'[Janitor].idx # loc[Janitor].idx)

SweepAt == SweepFiles[loc[Janitor].idx]

\* what the file the sweep stands at will hold once the sweep has passed it
SweptContents ==
    IF pc'[Janitor] = "sweep_write" THEN op'[Janitor].arg
    ELSE files[SweepAt.name].val

\* C15: in a sweep, of a log that is swept as an array the entries dated
\* before the sweep's cutoff (31 days before its start, by ts, falling back
\* to time) are removed, the entries dated at or after the cutoff and the
\* entries without a timestamp are retained in their order, and an object
\* document with no top-level timestamp is not written.
C15_AgeRule ==
    [][(SweepReads /\ files[SweepAt.name].st = "ok")
        => LET data == files[SweepAt.name].val
               cutoff == loc[Janitor].cutoff
           IN /\ (SweepAt.kind = "array" /\ data.t = "arr")
                    => /\ SweptContents.t = "arr"
                       /\ \A i \in 1..Len(SweptContents.v) :
                             ~Expired(SweptContents.v[i], cutoff)
                       /\ SelectSeq(SweptContents.v, LAMBDA e : Retained(e, cutoff))
                             = SelectSeq(data.v, LAMBDA e : Retained(e, cutoff))
              /\ (SweepAt.kind = "object" /\ data.t = "obj" /\ NoTopLevelTimestamp(data))
                    => pc'[Janitor] # "sweep_write"]_vars

\* a finished sweep has removed the entry 32 days old and the notification
\* dated by time alone, and kept the recent and the undated entry and the
\* dashboard that has no timestamp
C15_Witness ==
    /\ resp[Janitor].of = "sweep"
    /\ pc[Janitor] = "idle"
    /\ files[WATER_EVENTS_FILE] = Stored(Arr(<<Recent1, Undated>>))
    /\ files[NOTIFICATIONS_FILE] = Stored(Arr(<<RecentNotification>>))
    /\ files["dashboard"] =
          Stored(Obj([petWeight |-> Num(4), lastMealTime |-> Iso(0 - 32 * DAY)]))
    /\ finished[WATER_EVENTS_FILE] # <<>>
    /\ finished[NOTIFICATIONS_FILE] # <<>>

\* the logs that hold arrays: the event and history logs, the notifications
\* and the log of actions
ArrayLogs == {WATER_EVENTS_FILE, FEEDING_HISTORY_FILE, MOTION_EVENTS_FILE,
              NOTIFICATIONS_FILE, ACTIONS_FILE}

\* C16: when a sweep with no concurrent writer ends, no array log holds an
\* entry dated before the sweep's cutoff.
C16_NoExpiredEntryAfterSweep ==
    [][(pc[Janitor] # "idle" /\ pc'[Janitor] = "idle")
        => \A k \in ArrayLogs :
              LET data == ensureArray(files'[k].val) IN
              \A i \in 1..Len(data) : ~Expired(data[i], loc[Janitor].cutoff)]_vars

---------------------------------------------------------------------------
(* Specification of the retention sweep under failures, with the fairness of
   the event loop: a pending I/O completes and its continuation runs *)

\* a file whose bytes are no JSON text
Malformed == Partial(Stored(EmptyArr))

FaultObjects ==
    {Stored(Obj([petWeight |-> Num(4), updatedAt |-> Iso(0 - 32 * DAY)])), Malformed}

\* the client that writes the dashboard while the sweep runs
Writer == 1

InitFaults ==
    \E object \in FaultObjects :
        InitWith([k \in Keys |->
                    CASE k = WATER_EVENTS_FILE -> Stored(Arr(<<Expired32, Recent1>>))
                      [] k = FEEDING_HISTORY_FILE -> Malformed
                      [] k = NOTIFICATIONS_FILE ->
                            Stored(Arr(<<RecentNotification, OldNotification>>))
                      [] k = "dashboard" -> object
                      [] OTHER -> Absent])

NextFaults ==
    \/ CallBudget /\ SweepStart
    \/ SweepRead
    \/ SweepReadFails
    \/ SweepWrite
    \/ SweepWriteFails
    \/ CallBudget /\ WriteCall(Writer, EmptyObj)
    \/ \E p \in {Writer, Janitor} : FileOpen(p)
    \/ StoreReturn(Writer)

SpecFaults ==
    /\ InitFaults
    /\ [][NextFaults]_vars
    /\ WF_vars(SweepRead)
    /\ WF_vars(SweepWrite)
    /\ \A p \in {Writer, Janitor} : WF_vars(FileOpen(p))
    /\ WF_vars(StoreReturn(Writer))

\* the sweep leaves the file it stands at, or ends
SweepMoves ==
    /\ pc[Janitor] # "idle"
    /\ (loc'[Janitor].idx # loc[Janitor].idx \/ pc'[Janitor] = "idle")

\* C17: whatever happens to a file of the sweep (a read error, malformed
\* JSON, a failed write), the sweep goes on to read the next file of its
\* list and ends only after the last; every sweep ends, and it never ends
\* with an error for its caller.
C17_SweepSurvivesFailures ==
    /\ [][SweepMoves
            => IF loc[Janitor].idx < Len(SweepFiles)
               THEN /\ loc'[Janitor].idx = loc[Janitor].idx + 1
                    /\ pc'[Janitor] = "sweep_read"
                    /\ op'[Janitor].kind = "read"
                    /\ op'[Janitor].key = SweepFiles[loc[Janitor].idx + 1].name
               ELSE /\ pc'[Janitor] = "idle"
                    /\ resp'[Janitor] = [of |-> "sweep", status |-> 200, body |-> Null]]_vars
    /\ [](resp[Janitor] # NoResp => resp[Janitor].status = 200)
    /\ (pc[Janitor] # "idle" ~> pc[Janitor] = "idle")

\* a sweep has ended after the write of the first log failed half-way and
\* the second log was malformed: it has pruned the notifications, which
\* come later in its list
C17_Witness ==
    /\ pc[Janitor] = "idle"
    /\ resp[Janitor] = [of |-> "sweep", status |-> 200, body |-> Null]
    /\ \A p \in Proc : op[p].phase = "idle"
    /\ files[WATER_EVENTS_FILE].st = "partial"
    /\ files[FEEDING_HISTORY_FILE].st = "partial"
    /\ files[NOTIFICATIONS_FILE] = Stored(Arr(<<RecentNotification>>))
    /\ Len(finished[NOTIFICATIONS_FILE]) = 2

---------------------------------------------------------------------------
(* Numbers of sensor readings and amounts: a JavaScript number n is held as
   the integer 100 * n, so that two decimal places are exact *)

Points(n) == n * 100

\* Number(text.trim()) for the strings of the model
NumberOf(text) ==
    CASE text = "68" -> [finite |-> TRUE, n |-> Points(68)]
      [] text = " 15 " -> [finite |-> TRUE, n |-> Points(15)]
      [] OTHER -> [finite |-> FALSE, n |-> 0]

\* sanitizeNumber: a finite number, or the number a non-blank string parses to
sanitizeNumber(value) ==
    CASE value.t = "number" -> value
      [] value.t = "string" ->
            IF NumberOf(value.v).finite THEN Num(NumberOf(value.v).n) ELSE Undefined
      [] OTHER -> Undefined

\* text.trim().toLowerCase() for the strings of the model
TrimLower(text) ==
    CASE text = " LOW " -> "low"
      [] text = "Feeding" -> "feeding"
      [] text = "Poor" -> "poor"
      [] OTHER -> text

\* text.toLowerCase() for the strings of the model
ToLowerCase(text) ==
    CASE text = " LOW " -> " low "
      [] text = "Feeding" -> "feeding"
      [] text = "IDLE" -> "idle"
      [] text = "Poor" -> "poor"
      [] OTHER -> text

\* the division that rounds to the nearest integer, halves away from zero
RoundDiv(a, b) ==
    IF a >= 0 THEN (2 * a + b) \div (2 * b) ELSE 0 - ((2 * (0 - a) + b) \div (2 * b))

\* Number(x.toFixed(d)): n rounded to a multiple of unit, 10 for one decimal
\* place and 1 for two. A value half-way between two multiples is rounded by
\* its binary expansion in JavaScript and away from zero here.
ToFixed(n, unit) == RoundDiv(n, unit) * unit

\* a ?? b
Coalesce(a, b) == IF a.t \in {"undefined", "null"} THEN b ELSE a

\* typeof x === "object" && x: an object or an array
IsObjectLike(x) == x.t \in {"obj", "arr"}

---------------------------------------------------------------------------
(* Async functions that call one another: a handler is a stack of suspended
   calls, resumed when the file operation it awaits has completed *)

\* a call: the function, the await it stands at, its parameters and locals
Frame(fn, at, v) == [fn |-> fn, at |-> at, v |-> v]

At(f, label) == [f EXCEPT !.at = label]
With(f, label, v) == [f EXCEPT !.at = label, !.v = v]

\* what a call does when it runs on, up to its next await
Await(f, c, r) == [do |-> "await", frame |-> f, cache |-> c, req |-> r]
Invoke(f, c, callee) == [do |-> "call", frame |-> f, cache |-> c, callee |-> callee]
Return(c, val) == [do |-> "return", cache |-> c, val |-> val]
Throw(c, err) == [do |-> "throw", cache |-> c, err |-> err]

\* what a call is resumed with: the outcome of the operation or of the callee
NoInput == [err |-> 0, val |-> Undefined]

\* a call whose callee or awaited operation threw has no catch block
Rejected(in) == in.err # 0

\* appendNotification(message, type, pushType)
appendNotificationCall(message, type, pushType) ==
    Frame("appendNotification", "entry",
          [message |-> message, type |-> type, pushType |-> pushType])

appendNotificationStep(f, in, c, t) ==
    CASE f.at = "entry" ->
            IF f.v.message = "" THEN Return(c, Undefined)
            ELSE Await(At(f, "read"), c, Request("read", NOTIFICATIONS_FILE, Null))
      [] f.at = "read" ->
            IF Throws(in) THEN Throw(c, in.err)
            ELSE LET read == ensureArray(SafeValue(in, EmptyArr))
                     existing == Find(read, f.v.message)
                     kept == IF Truthy(existing)
                             THEN WithoutMessage(read, f.v.message) ELSE read
                     next == SliceFirst(Unshift(kept, FreshNotification(f.v, t)),
                                        NOTIFICATION_LIMIT)
                 IN IF Truthy(existing) /\ Suppressed(existing, t)
                    THEN Return(c, Undefined)
                    ELSE Await(At(f, "written"), c,
                               Request("write", NOTIFICATIONS_FILE, Arr(next)))
      [] OTHER ->
            IF Rejected(in) THEN Throw(c, in.err) ELSE Return(c, Undefined)

\* recordEventWithWindow(file, event, windowMs, maxEntries)
recordEventWithWindowCall(file, event, windowMs, maxEntries) ==
    Frame("recordEventWithWindow", "entry",
          [file |-> file, event |-> event, windowMs |-> windowMs,
           maxEntries |-> maxEntries])

recordEventWithWindowStep(f, in, c, t) ==
    CASE f.at = "entry" ->
            IF ~IsObjectLike(f.v.event) THEN Return(c, EmptyArr)
            ELSE Await(At(f, "read"), c, Request("read", f.v.file, Null))
      [] f.at = "read" ->
            IF Throws(in) THEN Throw(c, in.err)
            ELSE LET pushed == Append(ensureArray(SafeValue(in, EmptyArr)),
                                      Stamped(f.v.event, t))
                     events == WindowPrune(pushed, t - f.v.windowMs, f.v.maxEntries)
                 IN Await(At(f, "written"), c, Request("write", f.v.file, Arr(events)))
      [] OTHER ->
            IF Rejected(in) THEN Throw(c, in.err) ELSE Return(c, in.val)

---------------------------------------------------------------------------
(* The water detector: monitorWaterLevel, recordWaterIntakeEvent,
   runWaterAnalysis *)

WATER_EVENT_WINDOW_MS == 48 * 60
WATER_DROP_THRESHOLD == Points(5)
MAX_WATER_EVENTS == 200
WATER_TOLERANCE_MINUTES == 15
WATER_WARNING == "Water intake has not been detected in over 12 hours."

\* normalizeWaterState
normalizeWaterState(value) ==
    CASE value.t = "string" ->
            IF TrimLower(value.v) \in {"low", "empty", "refill", "0", "off"} THEN Str("low")
            ELSE IF TrimLower(value.v) \in {"high", "full", "ok", "normal", "1", "on"}
                 THEN Str("high")
                 ELSE Null
      [] value.t = "boolean" -> IF value.v THEN Str("high") ELSE Str("low")
      [] value.t = "number" ->
            IF value.v <= Points(20) THEN Str("low")
            ELSE IF value.v >= Points(80) THEN Str("high")
            ELSE Null
      [] OTHER -> Null

\* date.getHours() * 60 + date.getMinutes(), in the time zone UTC
MinuteOfDay(ms) == ms % (24 * 60)

\* the minutes of the day of the events whose ts parses
MinutesOf(events) ==
    LET dated == SelectSeq(events, LAMBDA e : DateParse(Get(e, "ts")).finite)
    IN [i \in 1..Len(dated) |-> MinuteOfDay(DateParse(Get(dated[i], "ts")).ms)]

Distance(a, b) == IF a >= b THEN a - b ELSE b - a

\* the elements of items at the positions in S, in their order
RECURSIVE PickFrom(_, _, _)
PickFrom(items, S, i) ==
    IF i > Len(items) THEN <<>>
    ELSE (IF i \in S THEN <<items[i]>> ELSE <<>>) \o PickFrom(items, S, i + 1)

\* groupMinutesWithinTolerance, from position idx on with the positions in
\* used already grouped: a bucket is its base and, in input order, every
\* position not yet grouped that is within the tolerance of the base
RECURSIVE GroupFrom(_, _, _)
GroupFrom(minutes, idx, used) ==
    IF idx > Len(minutes) THEN <<>>
    ELSE IF idx \in used THEN GroupFrom(minutes, idx + 1, used)
    ELSE LET bucket == {idx} \cup
                       {j \in 1..Len(minutes) :
                            /\ j \notin used
                            /\ Distance(minutes[j], minutes[idx]) <= WATER_TOLERANCE_MINUTES}
         IN <<PickFrom(minutes, bucket, 1)>>
            \o GroupFrom(minutes, idx + 1, used \cup bucket)

\* every minute in a bucket of its own
groupMinutesApart(minutes) == [i \in DOMAIN minutes |-> <<minutes[i]>>]

groupMinutesWithinTolerance(minutes) == GroupFrom(minutes, 1, {})

RECURSIVE SumOf(_)
SumOf(numbers) == IF numbers = <<>> THEN 0 ELSE Head(numbers) + SumOf(Tail(numbers))

\* grouped.sort((a, b) => b.length - a.length)[0]: the sort is stable, the
\* first of the longest groups comes first
TopGroup(grouped) ==
    grouped[CHOOSE i \in 1..Len(grouped) :
                /\ \A j \in 1..Len(grouped) : Len(grouped[j]) <= Len(grouped[i])
                /\ \A j \in 1..(i - 1) : Len(grouped[j]) < Len(grouped[i])]

\* `${hours}:${mins}` with both padded to two digits
ClockText(avgMinutes) ==
    [t |-> "clock", v |-> <<avgMinutes \div 60, avgMinutes % 60>>]

\* runWaterAnalysis(eventsInput): with the events just written, or with
\* undefined, and then it reads them
runWaterAnalysisCall(events) ==
    Frame("runWaterAnalysis", "entry", [events |-> events, result |-> Null])

WaterResultFrom12(events, t) ==
    LET minutes == MinutesOf(events)
        topGroup == TopGroup(groupMinutesWithinTolerance(minutes))
        lastTs == Get(events[Len(events)], "ts")
        stale == /\ minutes # <<>>
                 /\ \/ ~Truthy(lastTs)
                    \/ /\ DateParse(lastTs).finite
                       /\ t - DateParse(lastTs).ms >= 12 * 60
    IN Obj([updatedAt |-> toISOString(t),
            totalEvents |-> Num(Points(Len(minutes))),
            toleranceMinutes |-> Num(Points(WATER_TOLERANCE_MINUTES)),
            mostFrequentTime |->
                IF minutes = <<>> THEN Null
                ELSE ClockText(RoundDiv(SumOf(topGroup), Len(topGroup))),
            status |-> IF minutes = <<>> THEN Str("insufficient_data")
                       ELSE IF stale THEN Str("warning") ELSE Str("ok"),
            warning |-> IF stale THEN Str(WATER_WARNING) ELSE Null])

\* the result of runWaterAnalysis at time t
WaterResult(events, t) ==
    LET minutes == MinutesOf(events)
        topGroup == TopGroup(groupMinutesWithinTolerance(minutes))
        lastTs == Get(events[Len(events)], "ts")
        stale == /\ minutes # <<>>
                 /\ \/ ~Truthy(lastTs)
                    \/ /\ DateParse(lastTs).finite
                       /\ t - DateParse(lastTs).ms > 12 * 60
    IN Obj([updatedAt |-> toISOString(t),
            totalEvents |-> Num(Points(Len(minutes))),
            toleranceMinutes |-> Num(Points(WATER_TOLERANCE_MINUTES)),
            mostFrequentTime |->
                IF minutes = <<>> THEN Null
                ELSE ClockText(RoundDiv(SumOf(topGroup), Len(topGroup))),
            status |-> IF minutes = <<>> THEN Str("insufficient_data")
                       ELSE IF stale THEN Str("warning") ELSE Str("ok"),
            warning |-> IF stale THEN Str(WATER_WARNING) ELSE Null])

\* writeAnalysisSection(section, payload)
AnalysisMerge(section, payload) ==
    Request("merge", ANALYTICS_FILE, Obj([s \in {section} |-> payload]))

\* runWaterAnalysis from `const minutes = events`
WaterAnalysed(f, events, c, t) ==
    LET result == WaterResult(ensureArray(events), t) IN
    IF Get(result, "warning").t = "string"
    THEN Invoke(With(f, "notified", [f.v EXCEPT !.result = result]), c,
                appendNotificationCall(WATER_WARNING, "warning", Null))
    ELSE Await(At(f, "written"), c, AnalysisMerge("water", result))

runWaterAnalysisStep(f, in, c, t) ==
    CASE f.at = "entry" ->
            IF f.v.events.t \in {"undefined", "null"}
            THEN Await(At(f, "read"), c, Request("read", WATER_EVENTS_FILE, Null))
            ELSE WaterAnalysed(f, f.v.events, c, t)
      [] f.at = "read" ->
            IF Throws(in) THEN Throw(c, in.err)
            ELSE WaterAnalysed(f, SafeValue(in, EmptyArr), c, t)
      [] f.at = "notified" ->
            IF Rejected(in) THEN Throw(c, in.err)
            ELSE Await(At(f, "written"), c, AnalysisMerge("water", f.v.result))
      [] OTHER ->
            IF Rejected(in) THEN Throw(c, in.err) ELSE Return(c, Undefined)

\* recordWaterIntakeEvent(event)
recordWaterIntakeEventCall(event) ==
    Frame("recordWaterIntakeEvent", "entry", [event |-> event])

\* the entry that recordWaterIntakeEvent pushes at time t
WaterEntry(event, t) ==
    LET deltaValue == sanitizeNumber(Get(event, "delta"))
        levelAfterValue == sanitizeNumber(Get(event, "levelAfter"))
        state == Get(event, "state")
    IN pruneUndefined(Obj(
          [ts |-> toISOString(t),
           delta |-> IF deltaValue.t = "number"
                     THEN Num(ToFixed(deltaValue.v, 10)) ELSE Undefined,
           levelAfter |-> IF levelAfterValue.t = "number"
                          THEN Num(ToFixed(levelAfterValue.v, 10)) ELSE Undefined,
           state |-> IF state.t = "string" THEN Str(TrimLower(state.v)) ELSE Undefined]))

recordWaterIntakeEventStep(f, in, c, t) ==
    CASE f.at = "entry" ->
            LET deltaValue == sanitizeNumber(Get(f.v.event, "delta"))
                state == Get(f.v.event, "state")
            IN IF deltaValue.t # "number"
                  /\ ~(state.t = "string" /\ TrimLower(state.v) # "")
               THEN Return(c, Undefined)
               ELSE Await(At(f, "read"), c, Request("read", WATER_EVENTS_FILE, Null))
      [] f.at = "read" ->
            IF Throws(in) THEN Throw(c, in.err)
            ELSE LET pushed == Append(ensureArray(SafeValue(in, EmptyArr)),
                                      WaterEntry(f.v.event, t))
                     events == WindowPrune(pushed, t - WATER_EVENT_WINDOW_MS,
                                           MAX_WATER_EVENTS)
                 IN Await(At(f, "written"), c,
                          Request("write", WATER_EVENTS_FILE, Arr(events)))
      [] f.at = "written" ->
            IF Rejected(in) THEN Throw(c, in.err)
            ELSE Invoke(At(f, "analysed"), c, runWaterAnalysisCall(in.val))
      [] OTHER ->
            IF Rejected(in) THEN Throw(c, in.err) ELSE Return(c, Undefined)

\* monitorWaterLevel(snapshot)
monitorWaterLevelCall(snapshot) ==
    Frame("monitorWaterLevel", "entry", [snapshot |-> snapshot, numericLevel |-> Undefined])

IsDropStrict(delta) == delta > WATER_DROP_THRESHOLD

\* delta >= WATER_DROP_THRESHOLD
IsDrop(delta) == delta >= WATER_DROP_THRESHOLD

\* monitorWaterLevel from `if (state === "low" && lastWaterLevelState !== "low")`
WaterEdge(f, c, state) ==
    IF state = Str("low") /\ c.lastWaterLevelState # Str("low")
    THEN Invoke(At(f, "state_recorded"), c,
                recordWaterIntakeEventCall(Obj([state |-> state])))
    ELSE Return([c EXCEPT !.lastWaterLevelState = state], Undefined)

\* monitorWaterLevel from `const state = normalizeWaterState(...)`
WaterState(f, c) ==
    LET state == normalizeWaterState(Coalesce(Get(f.v.snapshot, "waterLevelState"),
                                              Get(f.v.snapshot, "waterLevel")))
    IN IF ~Truthy(state) THEN Return(c, Undefined)
       ELSE IF state = Str("low")
       THEN Invoke(At(f, "notified"), c,
                   appendNotificationCall(WATER_LOW_NOTIFICATION, "warning",
                                          Str("water_low")))
       ELSE WaterEdge(f, c, state)

monitorWaterLevelAssignsFirst(f, in, c, t) ==
    CASE f.at = "entry" ->
            LET numericLevel == sanitizeNumber(Get(f.v.snapshot, "waterLevel")) IN
            IF ~IsObjectLike(f.v.snapshot) THEN Return(c, Undefined)
            ELSE IF numericLevel.t # "number" THEN WaterState(f, c)
            ELSE IF /\ c.lastWaterLevelReading.t = "number"
                    /\ IsDrop(c.lastWaterLevelReading.v - numericLevel.v)
            THEN Invoke(With(f, "recorded", [f.v EXCEPT !.numericLevel = numericLevel]),
                        [c EXCEPT !.lastWaterLevelReading = numericLevel],
                        recordWaterIntakeEventCall(
                            Obj([delta |-> Num(c.lastWaterLevelReading.v - numericLevel.v),
                                 levelAfter |-> numericLevel])))
            ELSE WaterState(f, [c EXCEPT !.lastWaterLevelReading = numericLevel])
      [] f.at = "recorded" ->
            IF Rejected(in) THEN Throw(c, in.err)
            ELSE WaterState(f, [c EXCEPT !.lastWaterLevelReading = f.v.numericLevel])
      [] f.at = "notified" ->
            IF Rejected(in) THEN Throw(c, in.err) ELSE WaterEdge(f, c, Str("low"))
      [] OTHER ->
            IF Rejected(in) THEN Throw(c, in.err)
            ELSE Return([c EXCEPT !.lastWaterLevelState = Str("low")], Undefined)

monitorWaterLevelStep(f, in, c, t) ==
    CASE f.at = "entry" ->
            LET numericLevel == sanitizeNumber(Get(f.v.snapshot, "waterLevel")) IN
            IF ~IsObjectLike(f.v.snapshot) THEN Return(c, Undefined)
            ELSE IF numericLevel.t # "number" THEN WaterState(f, c)
            ELSE IF /\ c.lastWaterLevelReading.t = "number"
                    /\ IsDrop(c.lastWaterLevelReading.v - numericLevel.v)
            THEN Invoke(With(f, "recorded", [f.v EXCEPT !.numericLevel = numericLevel]), c,
                        recordWaterIntakeEventCall(
                            Obj([delta |-> Num(c.lastWaterLevelReading.v - numericLevel.v),
                                 levelAfter |-> numericLevel])))
            ELSE WaterState(f, [c EXCEPT !.lastWaterLevelReading = numericLevel])
      [] f.at = "recorded" ->
            IF Rejected(in) THEN Throw(c, in.err)
            ELSE WaterState(f, [c EXCEPT !.lastWaterLevelReading = f.v.numericLevel])
      [] f.at = "notified" ->
            IF Rejected(in) THEN Throw(c, in.err) ELSE WaterEdge(f, c, Str("low"))
      [] OTHER ->
            IF Rejected(in) THEN Throw(c, in.err)
            ELSE Return([c EXCEPT !.lastWaterLevelState = Str("low")], Undefined)

---------------------------------------------------------------------------
(* The other detectors *)

WEIGHT_HISTORY_WINDOW_MS == 30 * 24 * 60
WEIGHT_HISTORY_INTERVAL_MS == 30
MAX_WEIGHT_HISTORY_POINTS == 500
WEIGHT_MIN_CHANGE == 5
MAX_EVENT_LOG == 400
MAX_MOTION_EVENTS == 200
MAX_FEEDING_EVENTS == 400
MOTION_DISTANCE_THRESHOLD_CM == Points(25)
BARK_NOTIFICATION == "Repeated barking detected. Please check on your pet."
FEEDER_STARTED_NOTIFICATION == "Hardware feeder started dispensing food."
FEEDER_FINISHED_NOTIFICATION == "Hardware feeder finished dispensing food."
SLEEPING_NOTIFICATION == "Pet is sleeping based on the activity scale."
ACTIVE_NOTIFICATION == "Pet is active again."
AIR_NOTIFICATION == "Air quality dropped to poor levels. Ventilation engaged."

\* a call of mergeJsonFile("dashboard", mutation)
DashboardMerge(mutation) == Request("merge", "dashboard", mutation)

\* x === true
IsTrue(x) == x = Bool(TRUE)

\* recordWeightHistory(weightKg)
recordWeightHistoryCall(weightKg) ==
    Frame("recordWeightHistory", "entry", [weightKg |-> weightKg])

recordWeightHistoryEveryChange(f, in, c, t) ==
    CASE f.at = "entry" ->
            IF ~(f.v.weightKg.t = "number" /\ f.v.weightKg.v > 0) THEN Return(c, Undefined)
            ELSE Await(At(f, "read"), c, Request("read", WEIGHT_HISTORY_FILE, Null))
      [] f.at = "read" ->
            IF Throws(in) THEN Throw(c, in.err)
            ELSE LET history == ensureArray(SafeValue(in, EmptyArr))
                     lastEntry == IF history = <<>> THEN Undefined
                                  ELSE history[Len(history)]
                     lastTs == IF Truthy(Get(lastEntry, "ts"))
                               THEN DateParse(Get(lastEntry, "ts"))
                               ELSE [finite |-> FALSE, ms |-> 0]
                     lastWeight == sanitizeNumber(Get(lastEntry, "weight"))
                     pushed == Append(history,
                                      Obj([ts |-> toISOString(t),
                                           weight |-> Num(ToFixed(f.v.weightKg.v, 1))]))
                     pruned == SliceLast(
                                  SelectSeq(pushed, LAMBDA e :
                                      WithinWindow(e, t - WEIGHT_HISTORY_WINDOW_MS)),
                                  MAX_WEIGHT_HISTORY_POINTS)
                 IN IF /\ lastTs.finite
                       /\ t - lastTs.ms < WEIGHT_HISTORY_INTERVAL_MS
                       /\ lastWeight.t = "number"
                       /\ Distance(lastWeight.v, f.v.weightKg.v) < 1
                    THEN Return(c, Undefined)
                    ELSE Await(At(f, "written"), c,
                               Request("write", WEIGHT_HISTORY_FILE, Arr(pruned)))
      [] OTHER ->
            IF Rejected(in) THEN Throw(c, in.err) ELSE Return(c, Undefined)

recordWeightHistoryStep(f, in, c, t) ==
    CASE f.at = "entry" ->
            IF ~(f.v.weightKg.t = "number" /\ f.v.weightKg.v > 0) THEN Return(c, Undefined)
            ELSE Await(At(f, "read"), c, Request("read", WEIGHT_HISTORY_FILE, Null))
      [] f.at = "read" ->
            IF Throws(in) THEN Throw(c, in.err)
            ELSE LET history == ensureArray(SafeValue(in, EmptyArr))
                     lastEntry == IF history = <<>> THEN Undefined
                                  ELSE history[Len(history)]
                     lastTs == IF Truthy(Get(lastEntry, "ts"))
                               THEN DateParse(Get(lastEntry, "ts"))
                               ELSE [finite |-> FALSE, ms |-> 0]
                     lastWeight == sanitizeNumber(Get(lastEntry, "weight"))
                     pushed == Append(history,
                                      Obj([ts |-> toISOString(t),
                                           weight |-> Num(ToFixed(f.v.weightKg.v, 1))]))
                     pruned == SliceLast(
                                  SelectSeq(pushed, LAMBDA e :
                                      WithinWindow(e, t - WEIGHT_HISTORY_WINDOW_MS)),
                                  MAX_WEIGHT_HISTORY_POINTS)
                 IN IF /\ lastTs.finite
                       /\ t - lastTs.ms < WEIGHT_HISTORY_INTERVAL_MS
                       /\ lastWeight.t = "number"
                       /\ Distance(lastWeight.v, f.v.weightKg.v) < WEIGHT_MIN_CHANGE
                    THEN Return(c, Undefined)
                    ELSE Await(At(f, "written"), c,
                               Request("write", WEIGHT_HISTORY_FILE, Arr(pruned)))
      [] OTHER ->
            IF Rejected(in) THEN Throw(c, in.err) ELSE Return(c, Undefined)

\* maybeRecordWeightSnapshot(snapshot)
maybeRecordWeightSnapshotCall(snapshot) ==
    Frame("maybeRecordWeightSnapshot", "entry", [snapshot |-> snapshot, weight |-> Undefined])

maybeRecordWeightSnapshotStep(f, in, c, t) ==
    CASE f.at = "entry" ->
            LET rawWeight == Coalesce(Coalesce(Get(f.v.snapshot, "petWeight"),
                                               Get(f.v.snapshot, "weight")),
                                      Get(f.v.snapshot, "currentWeight"))
                weight == sanitizeNumber(rawWeight)
            IN IF ~IsObjectLike(f.v.snapshot) \/ weight.t # "number"
               THEN Return(c, Undefined)
               ELSE Invoke(With(f, "recorded", [f.v EXCEPT !.weight = weight]), c,
                           recordWeightHistoryCall(weight))
      [] f.at = "recorded" ->
            IF Rejected(in) THEN Throw(c, in.err)
            ELSE Await(At(f, "merged"), c,
                       DashboardMerge(Obj([petWeight |-> Num(ToFixed(f.v.weight.v, 1))])))
      [] OTHER ->
            IF Rejected(in) THEN Throw(c, in.err) ELSE Return(c, Undefined)

\* handleMotionSnapshot(snapshot)
handleMotionSnapshotCall(snapshot) ==
    Frame("handleMotionSnapshot", "entry", [snapshot |-> snapshot])

MotionEdgeLevel(f, c) ==
    IF IsTrue(Get(f.v.snapshot, "motionLightOn"))
    THEN Invoke(At(f, "notified"), c,
                appendNotificationCall(MOTION_NOTIFICATION, "info", Null))
    ELSE Return([c EXCEPT !.lastMotionLightState = Bool(FALSE)], Undefined)

\* handleMotionSnapshot from `if (lightOn && !lastMotionLightState)`
MotionEdge(f, c) ==
    LET lightOn == IsTrue(Get(f.v.snapshot, "motionLightOn")) IN
    IF lightOn /\ ~Truthy(c.lastMotionLightState)
    THEN Invoke(At(f, "notified"), c,
                appendNotificationCall(MOTION_NOTIFICATION, "info", Null))
    ELSE Return([c EXCEPT !.lastMotionLightState = Bool(lightOn)], Undefined)

handleMotionSnapshotStep(f, in, c, t) ==
    LET lightOn == IsTrue(Get(f.v.snapshot, "motionLightOn"))
        distance == sanitizeNumber(Get(f.v.snapshot, "motionDistanceCm"))
    IN CASE f.at = "entry" ->
               IF lightOn \/ (distance.t = "number"
                              /\ distance.v <= MOTION_DISTANCE_THRESHOLD_CM)
               THEN Invoke(At(f, "recorded"), c,
                           recordEventWithWindowCall(
                               MOTION_EVENTS_FILE,
                               Obj([lightOn |-> Bool(lightOn), distance |-> distance]),
                               EVENT_WINDOW_MS, MAX_MOTION_EVENTS))
               ELSE MotionEdge(f, c)
         [] f.at = "recorded" ->
               IF Rejected(in) THEN Throw(c, in.err) ELSE MotionEdge(f, c)
         [] OTHER ->
               IF Rejected(in) THEN Throw(c, in.err)
               ELSE Return([c EXCEPT !.lastMotionLightState = Bool(lightOn)], Undefined)

\* handleBarkSnapshot(snapshot)
handleBarkSnapshotCall(snapshot) ==
    Frame("handleBarkSnapshot", "entry", [snapshot |-> snapshot])

\* handleBarkSnapshot from `if (barkAlert && !lastBarkAlertState)`
BarkEdge(f, c) ==
    LET barkAlert == IsTrue(Get(f.v.snapshot, "barkAlertActive")) IN
    IF barkAlert /\ ~Truthy(c.lastBarkAlertState)
    THEN Invoke(At(f, "notified"), c,
                appendNotificationCall(BARK_NOTIFICATION, "warning",
                                       Str("abnormal_barking")))
    ELSE Return([c EXCEPT !.lastBarkAlertState = Bool(barkAlert)], Undefined)

handleBarkSnapshotStep(f, in, c, t) ==
    LET barkAlert == IsTrue(Get(f.v.snapshot, "barkAlertActive"))
        barkCount == sanitizeNumber(Get(f.v.snapshot, "barkCount"))
    IN CASE f.at = "entry" ->
               IF barkCount.t = "number" /\ barkCount.v > 0
               THEN Invoke(At(f, "recorded"), c,
                           recordEventWithWindowCall(
                               BARK_EVENTS_FILE,
                               Obj([barkCount |-> barkCount, alert |-> Bool(barkAlert)]),
                               EVENT_WINDOW_MS, MAX_EVENT_LOG))
               ELSE BarkEdge(f, c)
         [] f.at = "recorded" ->
               IF Rejected(in) THEN Throw(c, in.err) ELSE BarkEdge(f, c)
         [] OTHER ->
               IF Rejected(in) THEN Throw(c, in.err)
               ELSE Return([c EXCEPT !.lastBarkAlertState = Bool(barkAlert)], Undefined)

\* deriveFeederState
deriveFeederState(snapshot) ==
    IF Get(snapshot, "feedingStatus").t = "string"
    THEN Str(ToLowerCase(Get(snapshot, "feedingStatus").v))
    ELSE IF IsTrue(Get(snapshot, "feedingInProgress")) THEN Str("feeding")
    ELSE IF /\ Get(snapshot, "feedingInProgress") = Bool(FALSE)
            /\ Get(snapshot, "feederCurrentWeight").t = "number"
            /\ Get(snapshot, "feederCurrentWeight").v > 0
         THEN Str("idle")
         ELSE Undefined

\* handleFeederSnapshot(snapshot)
handleFeederSnapshotCall(snapshot) ==
    Frame("handleFeederSnapshot", "entry", [snapshot |-> snapshot])

FeederEndAssigns(f, c) ==
    Return([c EXCEPT !.lastFeedingState = deriveFeederState(f.v.snapshot)], Undefined)

\* handleFeederSnapshot, the end: lastFeedingState = feederState ?? lastFeedingState
FeederEnd(f, c) ==
    Return([c EXCEPT !.lastFeedingState =
                        Coalesce(deriveFeederState(f.v.snapshot), c.lastFeedingState)],
           Undefined)

FeederFinishedWhenIdle(f, c) ==
    IF deriveFeederState(f.v.snapshot) = Str("idle")
    THEN Invoke(At(f, "finished"), c,
                appendNotificationCall(FEEDER_FINISHED_NOTIFICATION, "success",
                                       Str("feeding_complete")))
    ELSE Return([c EXCEPT !.lastFeedingState =
                             Coalesce(deriveFeederState(f.v.snapshot), c.lastFeedingState)],
                Undefined)

\* handleFeederSnapshot from `if (feederState === "idle" && ...)`
FeederFinished(f, c) ==
    IF /\ deriveFeederState(f.v.snapshot) = Str("idle")
       /\ c.lastFeedingState = Str("feeding")
    THEN Invoke(At(f, "finished"), c,
                appendNotificationCall(FEEDER_FINISHED_NOTIFICATION, "success",
                                       Str("feeding_complete")))
    ELSE FeederEnd(f, c)

\* handleFeederSnapshot from `if (feederState === "feeding" && ...)`
FeederStarted(f, c) ==
    IF /\ deriveFeederState(f.v.snapshot) = Str("feeding")
       /\ c.lastFeedingState # Str("feeding")
    THEN Invoke(At(f, "started"), c,
                appendNotificationCall(FEEDER_STARTED_NOTIFICATION, "info", Null))
    ELSE FeederFinished(f, c)

handleFeederSnapshotStep(f, in, c, t) ==
    LET feederState == deriveFeederState(f.v.snapshot)
        currentWeight == sanitizeNumber(Get(f.v.snapshot, "feederCurrentWeight"))
        targetWeight == sanitizeNumber(Get(f.v.snapshot, "feederTargetWeight"))
    IN CASE f.at = "entry" ->
               IF Truthy(feederState) \/ currentWeight.t = "number"
                  \/ targetWeight.t = "number"
               THEN Invoke(At(f, "recorded"), c,
                           recordEventWithWindowCall(
                               FEEDER_EVENTS_FILE,
                               Obj([state |-> feederState,
                                    currentWeight |-> currentWeight,
                                    targetWeight |-> targetWeight]),
                               EVENT_WINDOW_MS, MAX_FEEDING_EVENTS))
               ELSE FeederStarted(f, c)
         [] f.at = "recorded" ->
               IF Rejected(in) THEN Throw(c, in.err)
               ELSE Await(At(f, "merged"), c,
                          DashboardMerge(pruneUndefined(Obj(
                              [feederStatus |-> feederState,
                               feederCurrentWeight |-> currentWeight,
                               feederTargetWeight |-> targetWeight]))))
         [] f.at = "merged" ->
               IF Rejected(in) THEN Throw(c, in.err) ELSE FeederStarted(f, c)
         [] f.at = "started" ->
               IF Rejected(in) THEN Throw(c, in.err) ELSE FeederFinished(f, c)
         [] OTHER ->
               IF Rejected(in) THEN Throw(c, in.err) ELSE FeederEnd(f, c)

\* handleActivitySnapshot(snapshot)
handleActivitySnapshotCall(snapshot) ==
    Frame("handleActivitySnapshot", "entry", [snapshot |-> snapshot])

\* handleActivitySnapshot from `if (typeof sleeping === "boolean")`
ActivityMerge(f, c) ==
    Await(At(f, "merged"), c,
          DashboardMerge(Obj([petSleeping |->
                                 Bool(IsTrue(Get(f.v.snapshot, "petSleeping")))])))

handleActivitySnapshotStep(f, in, c, t) ==
    LET sleeping == IsTrue(Get(f.v.snapshot, "petSleeping"))
        activityWeight == sanitizeNumber(Coalesce(Get(f.v.snapshot, "activityWeight"),
                                                   Get(f.v.snapshot, "petWeight")))
    IN CASE f.at = "entry" ->
               IF activityWeight.t = "number"
               THEN Invoke(At(f, "recorded"), c,
                           recordEventWithWindowCall(
                               ACTIVITY_HISTORY_FILE,
                               Obj([sleeping |-> Bool(sleeping), weight |-> activityWeight]),
                               EVENT_WINDOW_MS, MAX_EVENT_LOG))
               ELSE ActivityMerge(f, c)
         [] f.at = "recorded" ->
               IF Rejected(in) THEN Throw(c, in.err) ELSE ActivityMerge(f, c)
         [] f.at = "merged" ->
               IF Rejected(in) THEN Throw(c, in.err)
               ELSE IF /\ c.lastPetSleepingState.t = "boolean"
                       /\ c.lastPetSleepingState # Bool(sleeping)
               THEN Invoke(At(f, "notified"), c,
                           appendNotificationCall(
                               IF sleeping THEN SLEEPING_NOTIFICATION
                               ELSE ACTIVE_NOTIFICATION, "info", Null))
               ELSE Return([c EXCEPT !.lastPetSleepingState = Bool(sleeping)], Undefined)
         [] OTHER ->
               IF Rejected(in) THEN Throw(c, in.err)
               ELSE Return([c EXCEPT !.lastPetSleepingState = Bool(sleeping)], Undefined)

\* normalizeBoolean
normalizeBoolean(value) == IF value.t = "boolean" THEN value ELSE Undefined

\* handleAirQualitySnapshot(snapshot)
handleAirQualitySnapshotCall(snapshot) ==
    Frame("handleAirQualitySnapshot", "entry", [snapshot |-> snapshot])

handleAirQualitySnapshotStep(f, in, c, t) ==
    LET aqi == IF Get(f.v.snapshot, "aqi").t = "string"
               THEN Get(f.v.snapshot, "aqi") ELSE Undefined
        airQualityAlert == \/ IsTrue(Get(f.v.snapshot, "airQualityAlert"))
                           \/ aqi.t = "string" /\ ToLowerCase(aqi.v) = "poor"
    IN CASE f.at = "entry" ->
               Await(At(f, "merged"), c,
                     DashboardMerge(pruneUndefined(Obj(
                         [aqi |-> aqi,
                          fanOn |-> Bool(IsTrue(Get(f.v.snapshot, "fanOn"))),
                          motionLightOn |->
                              normalizeBoolean(Get(f.v.snapshot, "motionLightOn")),
                          motionDistanceCm |->
                              sanitizeNumber(Get(f.v.snapshot, "motionDistanceCm")),
                          barkAlertActive |->
                              normalizeBoolean(Get(f.v.snapshot, "barkAlertActive"))]))))
         [] f.at = "merged" ->
               IF Rejected(in) THEN Throw(c, in.err)
               ELSE IF airQualityAlert /\ ~Truthy(c.lastAirQualityAlertState)
               THEN Invoke(At(f, "notified"), c,
                           appendNotificationCall(AIR_NOTIFICATION, "warning",
                                                  Str("air_quality_alert")))
               ELSE Return([c EXCEPT !.lastAirQualityAlertState = Bool(airQualityAlert)],
                           Undefined)
         [] OTHER ->
               IF Rejected(in) THEN Throw(c, in.err)
               ELSE Return([c EXCEPT !.lastAirQualityAlertState = Bool(airQualityAlert)],
                           Undefined)

---------------------------------------------------------------------------
(* maybeRecordEnvironmentSnapshot and app.patch("/api/files/:file") *)

HISTORY_WINDOW_MS == 2 * 60
MIN_RECORD_INTERVAL_MS == 5
MAX_HISTORY_POINTS == 64
METRIC_KEYS == {"temperature", "humidity", "co2", "voc", "methanal", "waterLevel"}
ChartMetrics == {"temperature", "co2", "voc", "methanal"}

\* normaliseFileKey: raw.replace(/\.json$/i, "") for the names of the model
normaliseFileKey(raw) ==
    CASE raw = "environment-current.json" -> "environment-current"
      [] raw = "dashboard.json" -> "dashboard"
      [] OTHER -> raw

isEnvironmentCurrentFile(raw) == normaliseFileKey(raw) = ENV_CURRENT_KEY

\* the entry of a snapshot: ts and the metrics that are numbers
SnapshotEntry(snapshot, t) ==
    LET numeric == {k \in METRIC_KEYS : sanitizeNumber(Get(snapshot, k)).t = "number"}
    IN Obj([k \in numeric \cup {"ts"} |->
               IF k = "ts" THEN toISOString(t) ELSE sanitizeNumber(Get(snapshot, k))])

hasMetric(snapshot) ==
    \E k \in ChartMetrics : sanitizeNumber(Get(snapshot, k)).t = "number"

EnvHistoryRestamped(read, entry, nowTs) ==
    LET history == ensureArray(read)
        last == IF history = <<>> THEN Undefined ELSE history[Len(history)]
        lastTs == IF Truthy(Get(last, "ts")) THEN DateParse(Get(last, "ts"))
                  ELSE [finite |-> FALSE, ms |-> 0]
        merged == IF /\ Truthy(last)
                     /\ lastTs.finite
                     /\ nowTs - lastTs.ms < MIN_RECORD_INTERVAL_MS
                  THEN [history EXCEPT ![Len(history)] =
                           Obj(Spread(Fields(last), Fields(entry)))]
                  ELSE Append(history, entry)
        recent == SelectSeq(merged, LAMBDA item :
                      /\ Truthy(Get(item, "ts"))
                      /\ DateParse(Get(item, "ts")).finite
                      /\ nowTs - DateParse(Get(item, "ts")).ms <= HISTORY_WINDOW_MS)
    IN SliceLast(recent, MAX_HISTORY_POINTS)

\* the history that maybeRecordEnvironmentSnapshot writes at time nowTs. A
\* last entry without ts counts as dated 0, which Date.now() is far from.
EnvHistoryNext(read, entry, nowTs) ==
    LET history == ensureArray(read)
        last == IF history = <<>> THEN Undefined ELSE history[Len(history)]
        lastTs == IF Truthy(Get(last, "ts")) THEN DateParse(Get(last, "ts"))
                  ELSE [finite |-> FALSE, ms |-> 0]
        merged == IF /\ Truthy(last)
                     /\ lastTs.finite
                     /\ nowTs - lastTs.ms < MIN_RECORD_INTERVAL_MS
                  THEN [history EXCEPT ![Len(history)] =
                           Obj(Spread(Spread(Fields(last), Fields(entry)),
                                      [ts |-> Get(last, "ts")]))]
                  ELSE Append(history, entry)
        recent == SelectSeq(merged, LAMBDA item :
                      /\ Truthy(Get(item, "ts"))
                      /\ DateParse(Get(item, "ts")).finite
                      /\ nowTs - DateParse(Get(item, "ts")).ms <= HISTORY_WINDOW_MS)
    IN SliceLast(recent, MAX_HISTORY_POINTS)

\* formatLabel: the time of day of a date, to the minute
formatLabel(iso) ==
    IF DateParse(iso).finite THEN [t |-> "label", v |-> MinuteOfDay(DateParse(iso).ms)]
    ELSE Str("Invalid Date")

\* toChartPoints
toChartPoints(history) ==
    Obj([metric \in ChartMetrics |->
            LET numeric == SelectSeq(history, LAMBDA e : Get(e, metric).t = "number")
            IN Arr([i \in 1..Len(numeric) |->
                       Obj([t |-> formatLabel(Get(numeric[i], "ts")),
                            v |-> Get(numeric[i], metric)])])])

\* the detectors, in the order in which maybeRecordEnvironmentSnapshot
\* awaits them
Detectors ==
    <<"monitorWaterLevel", "maybeRecordWeightSnapshot", "handleMotionSnapshot",
      "handleBarkSnapshot", "handleFeederSnapshot", "handleActivitySnapshot",
      "handleAirQualitySnapshot">>

DetectorCall(fn, snapshot) ==
    CASE fn = "monitorWaterLevel" -> monitorWaterLevelCall(snapshot)
      [] fn = "maybeRecordWeightSnapshot" -> maybeRecordWeightSnapshotCall(snapshot)
      [] fn = "handleMotionSnapshot" -> handleMotionSnapshotCall(snapshot)
      [] fn = "handleBarkSnapshot" -> handleBarkSnapshotCall(snapshot)
      [] fn = "handleFeederSnapshot" -> handleFeederSnapshotCall(snapshot)
      [] fn = "handleActivitySnapshot" -> handleActivitySnapshotCall(snapshot)
      [] OTHER -> handleAirQualitySnapshotCall(snapshot)

\* maybeRecordEnvironmentSnapshot(fileName, snapshot)
maybeRecordEnvironmentSnapshotCall(fileName, snapshot) ==
    Frame("maybeRecordEnvironmentSnapshot", "entry",
          [fileName |-> fileName, snapshot |-> snapshot, entry |-> Null,
           history |-> EmptyArr, next |-> 1])

maybeRecordEnvironmentSnapshotStep(f, in, c, t) ==
    CASE f.at = "entry" ->
            IF \/ ~isEnvironmentCurrentFile(f.v.fileName)
               \/ ~IsObjectLike(f.v.snapshot)
               \/ ~hasMetric(f.v.snapshot)
            THEN Return(c, Undefined)
            ELSE Await(With(f, "read", [f.v EXCEPT !.entry = SnapshotEntry(f.v.snapshot, t)]),
                       c, Request("read", ENV_HISTORY_FILE, Null))
      [] f.at = "read" ->
            IF Throws(in) THEN Throw(c, in.err)
            ELSE LET history == Arr(EnvHistoryNext(SafeValue(in, EmptyArr), f.v.entry, t))
                 IN Await(With(f, "history_written", [f.v EXCEPT !.history = history]), c,
                          Request("write", ENV_HISTORY_FILE, history))
      [] f.at = "history_written" ->
            IF Rejected(in) THEN Throw(c, in.err)
            ELSE Await(At(f, "detect"), c,
                       Request("write", ENV_CHART_FILE, toChartPoints(f.v.history.v)))
      [] OTHER ->
            IF Rejected(in) THEN Throw(c, in.err)
            ELSE IF f.v.next > Len(Detectors) THEN Return(c, Undefined)
            ELSE Invoke([f EXCEPT !.v.next = f.v.next + 1], c,
                        DetectorCall(Detectors[f.v.next], f.v.snapshot))

\* the body that app.patch merges: for the name environment-current it
\* gets the field lastUpdated
bodyWithTimestamp(file, body, t) ==
    IF file = ENV_CURRENT_KEY
    THEN Obj(Spread(Fields(body), [lastUpdated |-> toISOString(t)]))
    ELSE body

\* app.patch("/api/files/:file")
patchFileCall(file, body) ==
    Frame("patchFile", "entry", [file |-> file, body |-> body, payload |-> Undefined])

patchFileStep(f, in, c, t) ==
    CASE f.at = "entry" ->
            IF f.v.body.t # "obj" THEN Throw(c, 400)
            ELSE Await(At(f, "merged"), c,
                       Request("merge", normaliseFileKey(f.v.file),
                               bodyWithTimestamp(f.v.file, f.v.body, t)))
      [] f.at = "merged" ->
            IF Rejected(in) THEN Throw(c, in.err)
            ELSE Invoke(With(f, "ingested", [f.v EXCEPT !.payload = in.val]), c,
                        maybeRecordEnvironmentSnapshotCall(f.v.file, in.val))
      [] OTHER ->
            IF Rejected(in) THEN Throw(c, in.err)
            ELSE Return(c, Obj([message |-> Str("Updated"), data |-> f.v.payload]))

---------------------------------------------------------------------------
(* recordFeedingEvent, runFoodAnalysis and app.post("/actions") *)

FEEDING_HISTORY_WINDOW_MS == 7 * 24 * 60
FOOD_EXPECTED_FALLBACK == Points(200)
DISPENSED_AMOUNT == Points(20)
FOOD_NOTIFICATION == "Food intake is below the expected schedule. Please check the feeder."
\* the cases of the switch with one more
ActionNamesAny ==
    {"toggle_light", "dispense_food", "reset_food_amount", "refill_water", "open_door"}

\* the cases of the switch of app.post("/actions")
ActionNames == {"toggle_light", "dispense_food", "reset_food_amount", "refill_water"}

\* new Date(ts).toISOString().slice(0, 10): the day of a date
DayOf(ms) == ms \div (24 * 60)

\* the amounts of the entries of the day: entries whose ts parses and whose
\* amount is a number
AmountsOn(history, day) ==
    LET counted == SelectSeq(history, LAMBDA e :
                       /\ DateParse(Get(e, "ts")).finite
                       /\ sanitizeNumber(Get(e, "amount")).t = "number"
                       /\ DayOf(DateParse(Get(e, "ts")).ms) = day)
    IN [i \in 1..Len(counted) |-> sanitizeNumber(Get(counted[i], "amount")).v]

\* the totals of the days compared instead of their means
ComparePastTotals(today, yesterday) ==
    IF yesterday = <<>> \/ SumOf(yesterday) <= 0 THEN Null
    ELSE Num(RoundDiv(Points(1) * (SumOf(today) - SumOf(yesterday)), SumOf(yesterday)))

\* Number((todayMean / yesterdayMean - 1).toFixed(2)), null when yesterday's
\* mean is not above 0
ComparePastData(today, yesterday) ==
    IF yesterday = <<>> \/ SumOf(yesterday) <= 0 THEN Null
    ELSE IF today = <<>> THEN Num(0 - Points(1))
    ELSE Num(RoundDiv(Points(1) * (SumOf(today) * Len(yesterday)
                                    - SumOf(yesterday) * Len(today)),
                      SumOf(yesterday) * Len(today)))

\* Number(mean(arr).toFixed(1))
MeanFixed(amounts) ==
    IF amounts = <<>> THEN 0 ELSE RoundDiv(SumOf(amounts), Len(amounts) * 10) * 10

\* the expected consumption of no plan, whatever the plan
ExpectedFoodFallback(feedingPlan) == 2 * FOOD_EXPECTED_FALLBACK

\* plannedMeals * expectedPerMeal
ExpectedFoodConsumption(feedingPlan) ==
    LET planned == Cardinality({k \in {"meal1Time", "meal2Time", "meal3Time"} :
                                   Truthy(Get(feedingPlan, k))})
        expectedPerMeal == Coalesce(sanitizeNumber(Get(feedingPlan, "mealAmount")),
                                    Num(FOOD_EXPECTED_FALLBACK))
    IN (IF planned = 0 THEN 2 ELSE planned) * expectedPerMeal.v

\* the result of runFoodAnalysis: today is the day at the call, t the time
\* after the plan was read
FoodResult(history, feedingPlan, today, t) ==
    LET todays == AmountsOn(history, today)
        yesterdays == AmountsOn(history, today - 1)
        expected == ExpectedFoodConsumption(feedingPlan)
        todayTotal == ToFixed(SumOf(todays), 10)
    IN Obj([updatedAt |-> toISOString(t),
            comparePastData |-> ComparePastData(todays, yesterdays),
            foodWarning |-> Bool(todayTotal * 10 < expected * 6),
            todayAverage |-> Num(MeanFixed(todays)),
            yesterdayAverage |-> Num(MeanFixed(yesterdays)),
            expectedFoodConsumption |-> Num(expected),
            todayTotal |-> Num(todayTotal)])

\* runFoodAnalysis(historyInput): with the history just written, or with
\* undefined, and then it reads it
runFoodAnalysisCall(history) ==
    Frame("runFoodAnalysis", "entry", [history |-> history, today |-> 0, result |-> Null])

runFoodAnalysisStep(f, in, c, t) ==
    CASE f.at = "entry" ->
            IF f.v.history.t \in {"undefined", "null"}
            THEN Await(At(f, "history_read"), c,
                       Request("read", FEEDING_HISTORY_FILE, Null))
            ELSE Await(With(f, "plan_read", [f.v EXCEPT !.today = DayOf(t)]), c,
                       Request("read", FEEDING_FILE, Null))
      [] f.at = "history_read" ->
            IF Throws(in) THEN Throw(c, in.err)
            ELSE Await(With(f, "plan_read",
                            [f.v EXCEPT !.history = SafeValue(in, EmptyArr),
                                        !.today = DayOf(t)]), c,
                       Request("read", FEEDING_FILE, Null))
      [] f.at = "plan_read" ->
            IF Throws(in) THEN Throw(c, in.err)
            ELSE LET read == SafeValue(in, EmptyObj)
                     feedingPlan == IF Truthy(read) THEN read ELSE EmptyObj
                     result == FoodResult(ensureArray(f.v.history), feedingPlan,
                                          f.v.today, t)
                 IN IF Get(result, "foodWarning") = Bool(TRUE)
                    THEN Invoke(With(f, "notified", [f.v EXCEPT !.result = result]), c,
                                appendNotificationCall(FOOD_NOTIFICATION, "warning",
                                                       Str("system_alert")))
                    ELSE Await(At(f, "written"), c, AnalysisMerge("food", result))
      [] f.at = "notified" ->
            IF Rejected(in) THEN Throw(c, in.err)
            ELSE Await(At(f, "written"), c, AnalysisMerge("food", f.v.result))
      [] OTHER ->
            IF Rejected(in) THEN Throw(c, in.err) ELSE Return(c, Undefined)

\* recordFeedingEvent(amount)
recordFeedingEventCall(amount) ==
    Frame("recordFeedingEvent", "entry", [amount |-> amount])

FeedingPruneKeepAll(pushed, cutoff) == pushed

\* history.filter(...).slice(-MAX_FEEDING_EVENTS)
FeedingPrune(pushed, cutoff) == WindowPrune(pushed, cutoff, MAX_FEEDING_EVENTS)

recordFeedingEventStep(f, in, c, t) ==
    CASE f.at = "entry" ->
            IF ~(f.v.amount.t = "number" /\ f.v.amount.v > 0) THEN Return(c, Undefined)
            ELSE Await(At(f, "read"), c, Request("read", FEEDING_HISTORY_FILE, Null))
      [] f.at = "read" ->
            IF Throws(in) THEN Throw(c, in.err)
            ELSE LET pushed == Append(ensureArray(SafeValue(in, EmptyArr)),
                                      Obj([ts |-> toISOString(t), amount |-> f.v.amount]))
                     history == FeedingPrune(pushed, t - FEEDING_HISTORY_WINDOW_MS)
                 IN Await(At(f, "written"), c,
                          Request("write", FEEDING_HISTORY_FILE, Arr(history)))
      [] f.at = "written" ->
            IF Rejected(in) THEN Throw(c, in.err)
            ELSE Invoke(At(f, "analysed"), c, runFoodAnalysisCall(in.val))
      [] OTHER ->
            IF Rejected(in) THEN Throw(c, in.err) ELSE Return(c, Undefined)

\* a number that is no number
NaN == [t |-> "nan", v |-> 0]

\* Number(x || 0)
NumberOrZero(x) ==
    CASE ~Truthy(x) -> Num(0)
      [] x.t = "number" -> x
      [] x.t = "boolean" -> Num(Points(1))
      [] x.t = "string" -> IF NumberOf(x.v).finite THEN Num(NumberOf(x.v).n) ELSE NaN
      [] OTHER -> NaN

\* x + dispensedAmount
Plus(x, n) == IF x.t = "number" THEN Num(x.v + n) ELSE NaN

\* the dashboard after the switch of app.post("/actions")
NextDashboard(dashboard, action, t) ==
    LET fields == Fields(dashboard)
        current == Truthy(Coalesce(Get(dashboard, "lightOn"),
                                   Get(Get(dashboard, "deviceStatus"), "lightOn")))
        deviceStatus == IF Truthy(Get(dashboard, "deviceStatus"))
                        THEN Fields(Get(dashboard, "deviceStatus")) ELSE <<>>
    IN CASE action = "toggle_light" ->
              Obj(Spread(fields,
                         [lightOn |-> Bool(~current),
                          deviceStatus |-> Obj(Spread(deviceStatus,
                                                      [lightOn |-> Bool(~current)]))]))
         [] action = "dispense_food" ->
              Obj(Spread(fields,
                         [lastMeal |-> Plus(NumberOrZero(Get(dashboard, "lastMeal")),
                                            DISPENSED_AMOUNT),
                          lastMealTime |-> toISOString(t)]))
         [] action = "reset_food_amount" ->
              Obj(Spread(fields, [lastMeal |-> Num(0), lastMealTime |-> Null]))
         [] OTHER ->
              Obj(Spread(fields, [waterLevel |-> Str("100%")]))

\* app.post("/actions")
postActionCall(action) ==
    Frame("postAction", "entry", [action |-> action, nextDashboard |-> Null])

\* app.post("/actions") from `const history = await readJsonFile("actions")`
ActionsRead(f, c) == Await(At(f, "actions_read"), c, Request("read", ACTIONS_FILE, Null))

postActionStep(f, in, c, t) ==
    CASE f.at = "entry" ->
            IF f.v.action = "" THEN Throw(c, 400)
            ELSE Await(At(f, "dashboard_read"), c, Request("read", "dashboard", Null))
      [] f.at = "dashboard_read" ->
            IF Throws(in) THEN Throw(c, in.err)
            ELSE IF f.v.action \notin ActionNames THEN Throw(c, 400)
            ELSE LET dashboard == IF in.err = 404 THEN EmptyObj ELSE in.val
                     nextDashboard == NextDashboard(dashboard, f.v.action, t)
                 IN Await(With(f, "dashboard_written",
                               [f.v EXCEPT !.nextDashboard = nextDashboard]), c,
                          Request("write", "dashboard", nextDashboard))
      [] f.at = "dashboard_written" ->
            IF Rejected(in) THEN Throw(c, in.err)
            ELSE IF f.v.action = "dispense_food"
            THEN Invoke(At(f, "fed"), c, recordFeedingEventCall(Num(DISPENSED_AMOUNT)))
            ELSE ActionsRead(f, c)
      [] f.at = "fed" ->
            IF Rejected(in) THEN Throw(c, in.err) ELSE ActionsRead(f, c)
      [] f.at = "actions_read" ->
            IF Throws(in) THEN Throw(c, in.err)
            ELSE LET history == IF in.err = 404 THEN EmptyArr ELSE in.val IN
                 IF history.t # "arr" THEN Throw(c, 500)
                 ELSE Await(At(f, "actions_written"), c,
                            Request("write", ACTIONS_FILE,
                                    Arr(Append(history.v,
                                               Obj([ts |-> toISOString(t),
                                                    action |-> Str(f.v.action)])))))
      [] OTHER ->
            IF Rejected(in) THEN Throw(c, in.err)
            ELSE Return(c, Obj([message |-> Str("Action processed"),
                                data |-> f.v.nextDashboard]))

---------------------------------------------------------------------------
(* The handlers that await these functions *)

\* bootstrapAnalytics(), called when the module is loaded
bootstrapAnalyticsCall == Frame("bootstrapAnalytics", "entry", [none |-> TRUE])

bootstrapAnalyticsStep(f, in, c, t) ==
    CASE f.at = "entry" -> Invoke(At(f, "water"), c, runWaterAnalysisCall(Undefined))
      [] f.at = "water" -> Invoke(At(f, "food"), c, runFoodAnalysisCall(Undefined))
      [] OTHER -> Return(c, Undefined)

\* the call f runs on from its await, resumed with in
Step(f, in, c, t) ==
    CASE f.fn = "appendNotification" -> appendNotificationStep(f, in, c, t)
      [] f.fn = "recordEventWithWindow" -> recordEventWithWindowStep(f, in, c, t)
      [] f.fn = "runWaterAnalysis" -> runWaterAnalysisStep(f, in, c, t)
      [] f.fn = "recordWaterIntakeEvent" -> recordWaterIntakeEventStep(f, in, c, t)
      [] f.fn = "monitorWaterLevel" -> monitorWaterLevelStep(f, in, c, t)
      [] f.fn = "recordWeightHistory" -> recordWeightHistoryStep(f, in, c, t)
      [] f.fn = "maybeRecordWeightSnapshot" -> maybeRecordWeightSnapshotStep(f, in, c, t)
      [] f.fn = "handleMotionSnapshot" -> handleMotionSnapshotStep(f, in, c, t)
      [] f.fn = "handleBarkSnapshot" -> handleBarkSnapshotStep(f, in, c, t)
      [] f.fn = "handleFeederSnapshot" -> handleFeederSnapshotStep(f, in, c, t)
      [] f.fn = "handleActivitySnapshot" -> handleActivitySnapshotStep(f, in, c, t)
      [] f.fn = "handleAirQualitySnapshot" -> handleAirQualitySnapshotStep(f, in, c, t)
      [] f.fn = "maybeRecordEnvironmentSnapshot" ->
            maybeRecordEnvironmentSnapshotStep(f, in, c, t)
      [] f.fn = "runFoodAnalysis" -> runFoodAnalysisStep(f, in, c, t)
      [] f.fn = "recordFeedingEvent" -> recordFeedingEventStep(f, in, c, t)
      [] f.fn = "postAction" -> postActionStep(f, in, c, t)
      [] f.fn = "bootstrapAnalytics" -> bootstrapAnalyticsStep(f, in, c, t)
      [] OTHER -> patchFileStep(f, in, c, t)

\* the detectors that have been called so far, with the callee added
Called(ran, callee) ==
    IF \E i \in 1..Len(Detectors) : Detectors[i] = callee.fn
    THEN Append(ran, callee.fn) ELSE ran

\* the synchronous run of a handler from the call on top of its stack: a
\* callee runs at once, a return resumes the caller, an exception leaves
\* every caller, as only bootstrapAnalytics catches it, and that returns
\* then; the run ends at the next await or with the response
RECURSIVE Drive(_, _, _, _, _)
Drive(stack, in, c, ran, t) ==
    LET rest == SubSeq(stack, 1, Len(stack) - 1)
        e == Step(stack[Len(stack)], in, c, t)
    IN CASE e.do = "await" ->
              [do |-> "await", stack |-> Append(rest, e.frame), cache |-> e.cache,
               ran |-> ran, req |-> e.req, status |-> 0, val |-> Null]
         [] e.do = "call" ->
              Drive(Append(Append(rest, e.frame), e.callee), NoInput, e.cache,
                    Called(ran, e.callee), t)
         [] e.do = "return" ->
              IF rest = <<>>
              THEN [do |-> "done", stack |-> <<>>, cache |-> e.cache, ran |-> ran,
                    req |-> NoRequest, status |-> 200, val |-> e.val]
              ELSE Drive(rest, [err |-> 0, val |-> e.val], e.cache, ran, t)
         [] OTHER ->
              [do |-> "done", stack |-> <<>>, cache |-> e.cache, ran |-> ran,
               req |-> NoRequest,
               status |-> IF rest # <<>> /\ rest[1].fn = "bootstrapAnalytics"
                          THEN 200 ELSE e.err,
               val |-> Null]

\* writeJsonFile prunes the payload it is called with
Pruned(r) == IF r.kind = "write" THEN [r EXCEPT !.arg = pruneUndefined(r.arg)] ELSE r

\* the handler of p, started by call, has run up to d: its request enters
\* the queue, or its response is sent
Settle(p, S, d, call) ==
    /\ cache' = d.cache
    /\ loc' = [loc EXCEPT ![p] = [call |-> call, stack |-> d.stack, ran |-> d.ran]]
    /\ IF d.do = "await"
       THEN /\ Commit(QueueEnter(S, p, Pruned(d.req)))
            /\ pc' = [pc EXCEPT ![p] = "await"]
            /\ UNCHANGED resp
       ELSE /\ Commit(S)
            /\ pc' = [pc EXCEPT ![p] = "idle"]
            /\ resp' = [resp EXCEPT ![p] =
                          [of |-> call.fn, status |-> d.status, body |-> d.val]]

\* a request arrives: its handler runs up to its first await
Handle(p, frame) ==
    /\ pc[p] = "idle"
    /\ reqs' = reqs + 1
    /\ Settle(p, Cur, Drive(<<frame>>, NoInput, cache, <<>>, now), frame)
    /\ UNCHANGED <<now, ticks>>

\* app.patch("/api/files/:file")
PatchSnapshot(p, file, body) == Handle(p, patchFileCall(file, body))

\* app.post("/actions")
PostAction(p, action) == Handle(p, postActionCall(action))

\* the operation that p's handler awaits has completed: the handler runs on
Resume(p) ==
    /\ pc[p] = "await"
    /\ CanComplete(p)
    /\ Settle(p, Complete(Cur, p),
              Drive(loc[p].stack, Outcome(p), cache, loc[p].ran, now), loc[p].call)
    /\ UNCHANGED <<now, ticks, reqs>>

\* the module is loaded: bootstrapAnalytics runs up to its first await
Bootstrap(p) == Handle(p, bootstrapAnalyticsCall)

---------------------------------------------------------------------------
(* Specification of sequential ingestion: the device uploads one snapshot
   after the other *)

\* the client that uploads the snapshots
Device == 1

FullSnapshot ==
    Obj([temperature |-> Num(Points(22)), waterLevel |-> Str(" 15 "),
         petWeight |-> Num(420), motionLightOn |-> Bool(TRUE),
         barkCount |-> Num(Points(3)), barkAlertActive |-> Bool(TRUE),
         feedingInProgress |-> Bool(TRUE), petSleeping |-> Bool(TRUE),
         aqi |-> Str("Poor")])

\* the uploads of the model: the name and the body of a PATCH
Uploads ==
    {[file |-> ENV_CURRENT_KEY,
      body |-> Obj([temperature |-> Num(Points(22)), waterLevel |-> Num(Points(80))])],
     [file |-> "environment-current.json",
      body |-> Obj([co2 |-> Num(Points(400)), waterLevel |-> Num(8026)])],
     [file |-> ENV_CURRENT_KEY, body |-> Obj([waterLevel |-> Num(Points(75))])],
     [file |-> ENV_CURRENT_KEY, body |-> Obj([waterLevel |-> Num(Points(68))])],
     [file |-> ENV_CURRENT_KEY, body |-> FullSnapshot],
     [file |-> "dashboard", body |-> Obj([temperature |-> Num(Points(22))])]}

IngestDeltas == {MIN_RECORD_INTERVAL_MS}

\* a fresh data directory: no document has been written yet
InitIngest == InitWith([k \in Keys |-> Absent])

NextIngest ==
    \/ CallBudget /\ \E u \in Uploads : PatchSnapshot(Device, u.file, u.body)
    \/ Resume(Device)
    \/ MergeRead(Device)
    \/ FileOpen(Device)
    \/ \E d \in IngestDeltas : Tick(d)

SpecIngest == InitIngest /\ [][NextIngest]_vars

---------------------------------------------------------------------------
(* Claims on ingestion *)

\* the device's PATCH has been answered with 200
Ingested ==
    /\ pc[Device] = "idle"
    /\ resp[Device] # NoResp
    /\ resp[Device].of = "patchFile"
    /\ resp[Device].status = 200

\* C18: a PATCH of environment-current that is answered with 200 has called
\* each of the seven detectors once, and a PATCH of any other name has
\* called none.
C18_EveryMergeRunsDetectors ==
    Ingested
    => loc[Device].ran = IF loc[Device].call.v.file \in
                                {"environment-current", "environment-current.json"}
                         THEN Detectors ELSE <<>>

\* the call of fn that is suspended on the stack, NoLoc when there is none
Suspended(stack, fn) ==
    IF \E i \in 1..Len(stack) : stack[i].fn = fn
    THEN stack[CHOOSE i \in 1..Len(stack) : stack[i].fn = fn]
    ELSE NoLoc

\* the multiple of a tenth that is nearest to n, the upper one of two
NearestTenth(n) == CHOOSE m \in (n - 5)..(n + 5) : m % 10 = 0 /\ (n - m) \in (0 - 5)..4

\* the device's handler calls monitorWaterLevel in this step
WaterChecked ==
    /\ pc[Device] = "await"
    /\ loc[Device].ran = <<>>
    /\ loc'[Device].ran # <<>>

\* the snapshot that the device's handler passes to the detectors
Snapshot == Suspended(loc[Device].stack, "maybeRecordEnvironmentSnapshot").v.snapshot

\* the level is at least 5 points below the cached reading
Dropped(level) ==
    /\ cache.lastWaterLevelReading.t = "number"
    /\ cache.lastWaterLevelReading.v - level >= Points(5)

\* the handler stands in the recordWaterIntakeEvent of a drop
RecordingDrop(stack) ==
    /\ Suspended(stack, "recordWaterIntakeEvent") # NoLoc
    /\ Get(Suspended(stack, "recordWaterIntakeEvent").v.event, "delta").t = "number"

\* the level of the snapshot that monitorWaterLevel examines
LevelExamined ==
    Get(Suspended(loc[Device].stack, "monitorWaterLevel").v.snapshot, "waterLevel").v

\* the write of the water events by the recordWaterIntakeEvent of a drop to
\* a level that is a number completes in this step
DropWritten ==
    /\ pc[Device] = "await"
    /\ op[Device].kind = "write" /\ op[Device].key = WATER_EVENTS_FILE
    /\ op[Device].phase = "writing"
    /\ op'[Device] # op[Device]
    /\ RecordingDrop(loc[Device].stack)
    /\ Get(Suspended(loc[Device].stack, "monitorWaterLevel").v.snapshot,
           "waterLevel").t = "number"

\* the step leaves the entries of the log that it keeps as they were and adds
\* one entry, of the level examined and of the given delta
DropEntryIs(delta) ==
    LET old == ensureArray(files[WATER_EVENTS_FILE].val)
        new == ensureArray(files'[WATER_EVENTS_FILE].val)
    IN /\ Len(new) >= 1 /\ Len(new) <= Len(old) + 1
       /\ \A i \in 1..(Len(new) - 1) : \E j \in 1..Len(old) : new[i] = old[j]
       /\ Get(new[Len(new)], "delta") = Num(delta)
       /\ Get(new[Len(new)], "levelAfter") = Num(NearestTenth(LevelExamined))
       /\ Get(new[Len(new)], "ts").t = "isodate"

\* C19 as claimed: the entry of a drop holds delta = previous - current.
C19_DeltaIsDifference ==
    [][DropWritten
         => DropEntryIs(cache.lastWaterLevelReading.v - LevelExamined)]_vars

\* C19: under sequential ingestion of a snapshot whose waterLevel is a
\* number: when it is at least 5 points below the cached reading,
\* recordWaterIntakeEvent is called once with delta = previous - current and
\* the cache keeps the previous reading until it returns, else it is not
\* called for a drop and the cache holds the new reading at once; the entry
\* that a drop adds to the water events holds the delta rounded to one
\* decimal place; and when the PATCH is answered the cache holds the new
\* reading.
C19_DropRecorded ==
    /\ [][(WaterChecked /\ Get(Snapshot, "waterLevel").t = "number")
            => LET level == Get(Snapshot, "waterLevel").v IN
               IF Dropped(level)
               THEN /\ RecordingDrop(loc'[Device].stack)
                    /\ Get(Suspended(loc'[Device].stack, "recordWaterIntakeEvent").v.event,
                           "delta") = Num(cache.lastWaterLevelReading.v - level)
                    /\ op'[Device].kind = "read" /\ op'[Device].key = WATER_EVENTS_FILE
                    /\ cache'.lastWaterLevelReading = cache.lastWaterLevelReading
               ELSE /\ ~RecordingDrop(loc'[Device].stack)
                    /\ cache'.lastWaterLevelReading = Num(level)]_vars
    /\ [][DropWritten
            => /\ Dropped(LevelExamined)
               /\ DropEntryIs(NearestTenth(cache.lastWaterLevelReading.v - LevelExamined))]_vars
    /\ [](Ingested /\ loc[Device].ran # <<>>
             /\ Get(Get(resp[Device].body, "data"), "waterLevel").t = "number"
          => cache.lastWaterLevelReading
                = Get(Get(resp[Device].body, "data"), "waterLevel"))

\* the snapshot with level 68 has been ingested after the one with level 80:
\* the log holds one entry, with delta 12, and the cache holds 68
C19_Witness ==
    /\ Ingested
    /\ loc[Device].ran = Detectors
    /\ cache.lastWaterLevelReading = Num(Points(68))
    /\ Len(ensureArray(files[WATER_EVENTS_FILE].val)) = 1
    /\ Get(files[WATER_EVENTS_FILE].val.v[1], "delta") = Num(Points(12))
    /\ Get(files[WATER_EVENTS_FILE].val.v[1], "levelAfter") = Num(Points(68))

---------------------------------------------------------------------------
(* Specification of sequential actions: the device posts one action after
   the other to a fresh data directory *)

\* the actions that the device posts: the four of the switch and one that
\* the switch does not know
ActionsPosted ==
    {"toggle_light", "dispense_food", "reset_food_amount", "refill_water", "open_door"}

\* between two actions a minute passes, or more than the feeding window
ActionDeltas == {1, FEEDING_HISTORY_WINDOW_MS + 1}

InitAction == InitWith([k \in Keys |-> Absent])

NextAction ==
    \/ CallBudget /\ \E action \in ActionsPosted : PostAction(Device, action)
    \/ Resume(Device)
    \/ MergeRead(Device)
    \/ FileOpen(Device)
    \/ \E d \in ActionDeltas : Tick(d)

SpecAction == InitAction /\ [][NextAction]_vars

---------------------------------------------------------------------------
(* Claims on actions *)

\* every action that the device posted has been answered with 200
Acted ==
    /\ pc[Device] = "idle"
    /\ resp[Device] # NoResp => (resp[Device].of = "postAction" /\ resp[Device].status = 200)

\* the names of the actions that the log of actions holds, in order
ActionLog ==
    LET log == ensureArray(files[ACTIONS_FILE].val)
    IN [i \in 1..Len(log) |-> Get(log[i], "action").v]

\* the number of dispense_food in names after the last reset_food_amount
RECURSIVE DispensedLast(_)
DispensedLast(names) ==
    IF names = <<>> \/ names[Len(names)] = "reset_food_amount" THEN 0
    ELSE (IF names[Len(names)] = "dispense_food" THEN 1 ELSE 0)
         + DispensedLast(SubSeq(names, 1, Len(names) - 1))

\* the number of dispense_food in names
RECURSIVE DispensedIn(_)
DispensedIn(names) ==
    IF names = <<>> THEN 0
    ELSE (IF names[1] = "dispense_food" THEN 1 ELSE 0) + DispensedIn(Tail(names))

FeedingHistory == ensureArray(files[FEEDING_HISTORY_FILE].val)

\* the time of the i-th entry of the feeding history
FedAt(i) == Get(FeedingHistory[i], "ts").v

\* lastMeal is 20 for each dispense_food since the last reset, and each entry
\* of the feeding history is one of 20 g, in the order of time
MealsCounted ==
    /\ (\E i \in 1..Len(ActionLog) : ActionLog[i] \in {"dispense_food", "reset_food_amount"})
       => Get(files["dashboard"].val, "lastMeal") = Num(Points(20) * DispensedLast(ActionLog))
    /\ \A i \in 1..Len(FeedingHistory) :
          /\ Get(FeedingHistory[i], "amount") = Num(Points(20))
          /\ Get(FeedingHistory[i], "ts").t = "isodate"
          /\ i > 1 => FedAt(i - 1) <= FedAt(i)

\* C20 as claimed: after k dispense_food the feeding history holds k entries.
C20_OneEntryPerCall ==
    Acted => /\ MealsCounted
             /\ Len(FeedingHistory) = DispensedIn(ActionLog)

\* C20: after sequential actions on a fresh data directory lastMeal is 20 g
\* times the number k of dispense_food since the last reset (40 after two
\* calls from 0), the feeding history holds entries of 20 g with
\* non-decreasing timestamps, at most k of them and none that was older than
\* 7 days when the last one was added, and exactly k of them when all calls
\* were made within 7 days.
C20_Dispensed ==
    Acted => /\ MealsCounted
             /\ Len(FeedingHistory) <= DispensedIn(ActionLog)
             /\ DispensedIn(ActionLog) > 0 => Len(FeedingHistory) >= 1
             /\ \A i \in 1..Len(FeedingHistory) :
                   FedAt(i) >= FedAt(Len(FeedingHistory)) - 7 * 24 * 60
             /\ now <= 7 * 24 * 60 => Len(FeedingHistory) = DispensedIn(ActionLog)

\* two dispense_food have been answered: lastMeal is 40 and the feeding
\* history holds two entries
C20_Witness ==
    /\ Acted
    /\ ActionLog = <<"dispense_food", "dispense_food">>
    /\ Get(files["dashboard"].val, "lastMeal") = Num(Points(40))
    /\ Len(FeedingHistory) = 2

---------------------------------------------------------------------------
(* Specification of the analysis at start: the module is loaded over a data
   directory that holds water events or a feeding history, and
   bootstrapAnalytics runs *)

\* the longest log of the data directory
MaxEvents == 4

\* the minutes of the day of the water events, all of the day before
WaterMinutes == {590, 600, 605, 610, 1200}

WaterEventAt(minute) ==
    Obj([ts |-> Iso(minute - 24 * 60), delta |-> Num(Points(6)),
         levelAfter |-> Num(Points(60))])

\* the sequences over S of a length up to n
RECURSIVE SeqsUpTo(_, _)
SeqsUpTo(S, n) ==
    IF n = 0 THEN {<<>>}
    ELSE SeqsUpTo(S, n - 1) \cup
         {Append(q, x) : q \in {r \in SeqsUpTo(S, n - 1) : Len(r) = n - 1}, x \in S}

\* feeding entries of today and of yesterday, in grams
FeedingEntries ==
    {Obj([ts |-> Iso(0), amount |-> Num(Points(100))]),
     Obj([ts |-> Iso(0), amount |-> Num(Points(50))]),
     Obj([ts |-> Iso(0), amount |-> Num(23996)]),
     Obj([ts |-> Iso(0 - 60), amount |-> Num(Points(200))]),
     Obj([ts |-> Iso(0 - 120), amount |-> Num(Points(100))])}

\* the feeding plans: none, one meal of 100 g, three meals of no stated size
FeedingPlans ==
    {Absent,
     Stored(Obj([meal1Time |-> Str("08:00"), mealAmount |-> Num(Points(100))])),
     Stored(Obj([meal1Time |-> Str("08:00"), meal2Time |-> Str("13:00"),
                 meal3Time |-> Str("18:00")]))}

\* the data directories at start
Directories ==
    {[k \in Keys |-> IF k = WATER_EVENTS_FILE THEN Stored(Arr([i \in DOMAIN q |-> WaterEventAt(q[i])]))
                     ELSE Absent] : q \in SeqsUpTo(WaterMinutes, MaxEvents)}
    \cup
    {[k \in Keys |-> IF k = FEEDING_HISTORY_FILE THEN Stored(Arr(q))
                     ELSE IF k = FEEDING_FILE THEN plan
                     ELSE Absent] : q \in SeqsUpTo(FeedingEntries, MaxEvents),
                                    plan \in FeedingPlans}

InitAnalysis == \E directory \in Directories : InitWith(directory)

NextAnalysis ==
    \/ reqs = 0 /\ Bootstrap(Device)
    \/ Resume(Device)
    \/ MergeRead(Device)
    \/ FileOpen(Device)

SpecAnalysis == InitAnalysis /\ [][NextAnalysis]_vars

---------------------------------------------------------------------------
(* Claims on the analysis *)

\* bootstrapAnalytics has returned
Analysed ==
    /\ pc[Device] = "idle"
    /\ resp[Device] # NoResp
    /\ resp[Device].of = "bootstrapAnalytics"

\* the minutes of the day of the water events of the data directory
MinutesStored ==
    LET events == ensureArray(files[WATER_EVENTS_FILE].val)
    IN [i \in 1..Len(events) |-> Get(events[i], "ts").v % (24 * 60)]

Apart(a, b) == IF a >= b THEN a - b ELSE b - a

\* the positions of the seeds of m: a position is a seed when it is more
\* than 15 minutes from every seed before it
SeedsOf(m) ==
    CHOOSE S \in SUBSET DOMAIN m :
        \A i \in DOMAIN m :
            i \in S <=> \A s \in S : s < i => Apart(m[i], m[s]) > 15

\* the cluster of the seed s: s and the later positions within 15 minutes of
\* it that are in the cluster of no seed before s
ClusterOf(m, s) ==
    {i \in DOMAIN m :
        /\ i >= s
        /\ Apart(m[i], m[s]) <= 15
        /\ \A r \in SeedsOf(m) : r < s => Apart(m[i], m[r]) > 15}

\* the seed of the largest cluster, the first one of the largest
LargestSeed(m) ==
    CHOOSE s \in SeedsOf(m) :
        \A r \in SeedsOf(m) :
            /\ Cardinality(ClusterOf(m, r)) <= Cardinality(ClusterOf(m, s))
            /\ r < s => Cardinality(ClusterOf(m, r)) < Cardinality(ClusterOf(m, s))

\* the sum of m over the positions in S
RECURSIVE TotalOver(_, _)
TotalOver(m, S) ==
    IF S = {} THEN 0
    ELSE LET i == CHOOSE j \in S : TRUE IN m[i] + TotalOver(m, S \ {i})

\* the mean of m over S, to the nearest minute
MeanMinute(m, S) == (2 * TotalOver(m, S) + Cardinality(S)) \div (2 * Cardinality(S))

\* the water section of the analysis document
WaterSection == Get(files[ANALYTICS_FILE].val, "water")

\* C21: the clusters of the minutes of day of the water events are, for each
\* seed (a minute more than 15 minutes from every earlier seed), the seed and
\* the later minutes within 15 minutes of it that no earlier seed took; the
\* analysis reports the mean minute of the first largest cluster as HH:MM.
C21_GreedyClusters ==
    (Analysed /\ MinutesStored # <<>>)
    => LET m == MinutesStored
           mean == MeanMinute(m, ClusterOf(m, LargestSeed(m)))
       IN /\ Get(WaterSection, "mostFrequentTime").v = <<mean \div 60, mean % 60>>
          /\ Get(WaterSection, "totalEvents") = Num(Points(Len(m)))

\* the events at 590, 600, 605 and 1200 have been analysed: the clusters are
\* {590, 600, 605} and {1200} and the time reported is 09:58
C21_Witness ==
    /\ Analysed
    /\ MinutesStored = <<590, 600, 605, 1200>>
    /\ SeedsOf(MinutesStored) = {1, 4}
    /\ ClusterOf(MinutesStored, 1) = {1, 2, 3}
    /\ ClusterOf(MinutesStored, 4) = {4}
    /\ Get(WaterSection, "mostFrequentTime").v = <<9, 58>>

\* the amounts of the feeding history of the data directory
AmountsStored ==
    LET history == ensureArray(files[FEEDING_HISTORY_FILE].val)
    IN [i \in 1..Len(history) |-> Get(history[i], "amount").v]

\* the positions of the entries of the feeding history of the day, today
\* being the day 0
FedOn(day) ==
    LET history == ensureArray(files[FEEDING_HISTORY_FILE].val)
    IN {i \in 1..Len(history) : Get(history[i], "ts").v \div (24 * 60) = day}

TotalOn(day) == TotalOver(AmountsStored, FedOn(day))

\* the food section of the analysis document
FoodSection == Get(files[ANALYTICS_FILE].val, "food")

\* C22 as claimed: a history that totals 100 g today and 200 g yesterday has
\* comparePastData = -0.5, and one without entries of yesterday has null.
C22_TrendOfTotals ==
    Analysed
    => /\ (TotalOn(0) = Points(100) /\ TotalOn(0 - 1) = Points(200))
          => Get(FoodSection, "comparePastData") = Num(0 - 50)
       /\ FedOn(0 - 1) = {} => Get(FoodSection, "comparePastData") = Null

\* C22: comparePastData is today's mean amount divided by yesterday's mean
\* amount, minus one, to two decimal places (a day without entries has the
\* mean 0), so -0.5 for a history whose entries average 100 g today and 200 g
\* yesterday; it is null whenever yesterday has no data.
C22_TrendOfMeans ==
    Analysed
    => LET nt == Cardinality(FedOn(0))
           ny == Cardinality(FedOn(0 - 1))
           trend == Get(FoodSection, "comparePastData")
       IN IF ny = 0 THEN trend = Null
          ELSE IF nt = 0 THEN trend = Num(0 - 100)
          ELSE /\ trend.t = "number"
               /\ Apart(2 * 100 * (TotalOn(0) * ny - TotalOn(0 - 1) * nt),
                        2 * trend.v * (TotalOn(0 - 1) * nt))
                     <= TotalOn(0 - 1) * nt
               /\ (TotalOn(0) * 2 * ny = TotalOn(0 - 1) * nt) => trend = Num(0 - 50)

\* one entry of 200 g yesterday and one of 100 g today have been analysed:
\* comparePastData is -0.5
C22_Witness ==
    /\ Analysed
    /\ Cardinality(FedOn(0)) = 1 /\ TotalOn(0) = Points(100)
    /\ Cardinality(FedOn(0 - 1)) = 1 /\ TotalOn(0 - 1) = Points(200)
    /\ Get(FoodSection, "comparePastData") = Num(0 - 50)

\* the expected daily consumption of the feeding plan of the data directory:
\* the number of meal times set, 2 when none is, times the meal size, 200 g
\* when none is set
ExpectedStored ==
    LET plan == IF files[FEEDING_FILE].st = "absent" THEN EmptyObj
                ELSE files[FEEDING_FILE].val
        meals == Cardinality({k \in {"meal1Time", "meal2Time", "meal3Time"} :
                                 Get(plan, k).t = "string"})
        size == IF Get(plan, "mealAmount").t = "number"
                THEN Get(plan, "mealAmount").v ELSE Points(200)
    IN (IF meals = 0 THEN 2 ELSE meals) * size

\* a food-intake notification is recorded
FoodNotified ==
    \E i \in 1..Len(ensureArray(files[NOTIFICATIONS_FILE].val)) :
        Get(files[NOTIFICATIONS_FILE].val.v[i], "message") = Str(FOOD_NOTIFICATION)

\* the analysis has the food warning exactly when the total is below 60 % of
\* the expected consumption, and then and only then the notification
WarnsBelow(total) ==
    /\ Get(FoodSection, "expectedFoodConsumption") = Num(ExpectedStored)
    /\ Get(FoodSection, "foodWarning") = Bool(10 * total < 6 * ExpectedStored)
    /\ FoodNotified <=> Get(FoodSection, "foodWarning") = Bool(TRUE)

---------------------------------------------------------------------------
(* Claims on unknown actions *)

\* the handler that the device's last request started is app.post("/actions")
\* with an action that the switch does not know
UnknownPosted(l) ==
    /\ l # NoLoc
    /\ l.call.fn = "postAction"
    /\ l.call.v.action \notin
          {"toggle_light", "dispense_food", "reset_food_amount", "refill_water"}

\* C24: no step of a POST /actions with an action outside toggle_light,
\* dispense_food, reset_food_amount, refill_water changes the dashboard, the
\* feeding history or the actions log, and the request is answered with the
\* status 400 of "Unsupported action".
C24_UnknownActionRejected ==
    /\ [][UnknownPosted(loc'[Device])
            => \A k \in {"dashboard", FEEDING_HISTORY_FILE, ACTIONS_FILE} :
                  files'[k] = files[k]]_vars
    /\ []((UnknownPosted(loc[Device]) /\ pc[Device] = "idle")
            => (resp[Device].of = "postAction" /\ resp[Device].status = 400))

\* open_door has been posted after a dispense_food and answered with 400: the
\* dashboard and the logs are those of the dispense_food
C24_Witness ==
    /\ UnknownPosted(loc[Device])
    /\ pc[Device] = "idle"
    /\ resp[Device].status = 400
    /\ ActionLog = <<"dispense_food">>
    /\ Get(files["dashboard"].val, "lastMeal") = Num(Points(20))
    /\ Len(FeedingHistory) = 1

---------------------------------------------------------------------------
(* Specification of the queue under fair scheduling: callers read, write and
   merge one document that is missing, malformed or an object; every file
   I/O that is pending completes and every continuation runs *)

\* the contents the document starts with: a read of the first two fails
QueueInits == {Absent, Malformed, Stored(EmptyObj)}

InitQueue ==
    \E doc \in QueueInits :
        InitWith([k \in Keys |-> IF k = DocKey THEN doc ELSE Absent])

NextQueue ==
    \/ CallBudget /\ \E p \in Callers : ReadCall(p)
    \/ CallBudget /\ \E p \in Callers : WriteCall(p, EmptyObj)
    \/ CallBudget /\ \E p \in Callers : MergeCall(p, EmptyObj)
    \/ \E p \in Callers : MergeRead(p)
    \/ \E p \in Callers : FileOpen(p)
    \/ \E p \in Callers : StoreReturn(p)

SpecQueue ==
    /\ InitQueue
    /\ [][NextQueue]_vars
    /\ \A p \in Callers : WF_vars(MergeRead(p))
    /\ \A p \in Callers : WF_vars(FileOpen(p))
    /\ \A p \in Callers : WF_vars(StoreReturn(p))

\* p's call ends with an error in this step while q waits for the document
FailsBefore(p, q) ==
    /\ pc[p] = "store" /\ pc'[p] = "idle"
    /\ resp'[p].status # 200
    /\ op[q].phase = "waiting" /\ op[q].prev = p

\* C25: every operation that waits in the queue of a key starts, every call
\* of the store returns, and when a call ends with an error the operation
\* that waits behind it starts in the same turn.
C25_NoOperationBlocks ==
    /\ \A p \in Callers : (op[p].phase = "waiting") ~> Executing(op[p])
    /\ \A p \in Callers : (pc[p] = "store") ~> (pc[p] = "idle")
    /\ [][\A p, q \in Callers : FailsBefore(p, q) => Executing(op'[q])]_vars

\* a read of the missing or malformed document, which fails, is pending
\* while another caller waits behind it
C25_Witness ==
    \E p, q \in Callers :
        /\ op[p].kind = "read" /\ op[p].phase = "running"
        /\ files[DocKey].st \in {"absent", "partial"}
        /\ op[q].phase = "waiting" /\ op[q].prev = p

---------------------------------------------------------------------------
(* Claims on the lock map *)

\* the operations that are queued or executing on the key
QueuedOn(k) == {p \in Proc : op[p].phase # "idle" /\ op[p].key = k}

\* C26: the lock map has an entry for a key exactly while an operation on
\* the key is queued or executing, and the entry is that of the operation
\* that arrived last; so the entry is deleted when the last operation ends,
\* not while a later one waits, and the map is empty when nothing is queued.
C26_LockMapTracksQueue ==
    /\ \A k \in Keys :
          /\ fileLocks[k] # NoLock <=> QueuedOn(k) # {}
          /\ fileLocks[k] # NoLock =>
                /\ fileLocks[k] \in QueuedOn(k)
                /\ \A q \in QueuedOn(k) : op[q].ticket <= op[fileLocks[k]].ticket
    /\ (\A p \in Proc : op[p].phase = "idle") => \A k \in Keys : fileLocks[k] = NoLock

\* the first operation on a key has ended while the second executes and the
\* third waits: the entry is the third's
C26_Witness ==
    \E k \in Keys : \E p, q \in Proc :
        /\ finished[k] = <<1>>
        /\ Executing(op[p]) /\ op[p].key = k
        /\ op[q].phase = "waiting" /\ op[q].key = k
        /\ fileLocks[k] = q

---------------------------------------------------------------------------
(* The detectors over consecutive snapshots *)

\* every flag raised
SnapshotOn ==
    Obj([temperature |-> Num(Points(22)), waterLevelState |-> Str("low"),
         motionLightOn |-> Bool(TRUE), barkAlertActive |-> Bool(TRUE),
         airQualityAlert |-> Bool(TRUE), feedingStatus |-> Str("Feeding")])

\* every flag lowered
SnapshotOff ==
    Obj([temperature |-> Num(Points(22)), waterLevelState |-> Str("normal"),
         motionLightOn |-> Bool(FALSE), barkAlertActive |-> Bool(FALSE),
         airQualityAlert |-> Bool(FALSE), feedingStatus |-> Str("IDLE")])

\* the bodies that the device uploads to environment-current: a PATCH merges
\* the body into the stored snapshot, so a field that a body leaves out keeps
\* the value of the upload before
DetectBodies ==
    {SnapshotOn, SnapshotOff,
     Obj([temperature |-> Num(Points(22)), barkAlertActive |-> Bool(TRUE),
          barkCount |-> Num(Points(3)), aqi |-> Str("Poor")]),
     Obj([temperature |-> Num(Points(22)), waterLevel |-> Num(Points(15)),
          motionLightOn |-> Bool(TRUE), feedingInProgress |-> Bool(FALSE),
          feederCurrentWeight |-> Num(Points(50))])}

DetectDeltas == {NOTIFICATION_SUPPRESS_MS + 1}

InitDetect == InitWith([k \in Keys |-> Absent])

NextDetect ==
    \/ CallBudget /\ \E body \in DetectBodies : PatchSnapshot(Device, ENV_CURRENT_KEY, body)
    \/ Resume(Device)
    \/ MergeRead(Device)
    \/ FileOpen(Device)
    \/ \E d \in DetectDeltas : Tick(d)

SpecDetect == InitDetect /\ [][NextDetect]_vars

---------------------------------------------------------------------------
(* Claims on the detectors *)

\* the times of the entries of a list that carry the water-low message
WaterLowTimes(items) ==
    {Get(items[i], "time") : i \in Carrying(items, WATER_LOW_NOTIFICATION)}

\* a water-low entry that the list did not hold is written in this step
WaterLowRecorded == WaterLowTimes(ListNext) \ WaterLowTimes(ListNow) # {}

\* C27: a water-low notification entry is recorded only on a transition of
\* the normalized water state into low: no entry is recorded while the
\* cached state is low already, however long the state stays low.
C27_WaterLowOnEdgeOnly ==
    [][WaterLowRecorded => cache.lastWaterLevelState # Str("low")]_vars

\* the calls that the device's handler is suspended in
StackNow == IF pc[Device] = "await" THEN loc[Device].stack ELSE <<>>

\* the detectors that the device's last handler has called
RanNow == IF loc[Device] = NoLoc THEN <<>> ELSE loc[Device].ran

\* the call of fn is on the stack of the device's handler
InDetector(fn) == \E i \in 1..Len(StackNow) : StackNow[i].fn = fn

\* the device's handler is in a call of appendNotification(message, ...)
Notifying(message) ==
    \E i \in 1..Len(StackNow) :
        /\ StackNow[i].fn = "appendNotification"
        /\ StackNow[i].v.message = message

\* the detector's call ends in this step
Returned(fn) ==
    /\ InDetector(fn) \/ \A i \in 1..Len(RanNow) : RanNow[i] # fn
    /\ \E i \in 1..Len(RanNow') : RanNow'[i] = fn
    /\ ~InDetector(fn)'

\* the detector's call is suspended in its call of appendNotification
NotifiedBefore(fn) ==
    InDetector(fn) /\ Suspended(StackNow, fn).at \in {"notified", "started", "finished"}

RisingEdgeDetectors ==
    {"handleMotionSnapshot", "handleBarkSnapshot", "handleAirQualitySnapshot"}

\* the detector's flag in a snapshot
Flag(fn, snapshot) ==
    CASE fn = "handleMotionSnapshot" -> Get(snapshot, "motionLightOn") = Bool(TRUE)
      [] fn = "handleBarkSnapshot" -> Get(snapshot, "barkAlertActive") = Bool(TRUE)
      [] OTHER -> \/ Get(snapshot, "airQualityAlert") = Bool(TRUE)
                  \/ Get(snapshot, "aqi") \in {Str("poor"), Str("Poor")}

\* the detector's cached value
CachedFlag(fn, c) ==
    CASE fn = "handleMotionSnapshot" -> c.lastMotionLightState
      [] fn = "handleBarkSnapshot" -> c.lastBarkAlertState
      [] OTHER -> c.lastAirQualityAlertState

\* the detector's notification
MessageOf(fn) ==
    CASE fn = "handleMotionSnapshot" -> MOTION_NOTIFICATION
      [] fn = "handleBarkSnapshot" -> BARK_NOTIFICATION
      [] OTHER -> AIR_NOTIFICATION

\* the flag is true and the cached value is false or unset
Rises(fn) ==
    /\ Flag(fn, Snapshot)
    /\ CachedFlag(fn, cache) \in {Bool(FALSE), Undefined}

\* C28: under sequential ingestion each of the three rising-edge detectors
\* calls appendNotification for a snapshot exactly when its flag is true in
\* the snapshot and its cached value is false or unset, and when it returns
\* the cached value is the snapshot's flag.
C28_NotifiesOnRisingEdge ==
    /\ [](\A fn \in RisingEdgeDetectors : Notifying(MessageOf(fn)) => Rises(fn))
    /\ [][\A fn \in RisingEdgeDetectors :
              Returned(fn) => /\ NotifiedBefore(fn) <=> Rises(fn)
                              /\ CachedFlag(fn, cache') = Bool(Flag(fn, Snapshot))]_vars

\* a detector notifies for a flag that a snapshot before has lowered
C28_Witness ==
    \E fn \in RisingEdgeDetectors :
        /\ Notifying(MessageOf(fn))
        /\ CachedFlag(fn, cache) = Bool(FALSE)
        /\ Flag(fn, Snapshot)

\* the state that the feeder detector derives from the snapshot of the handler
FeederState == deriveFeederState(Snapshot)

\* the derived state is feeding and the cached state is not feeding
FeedingBegins == FeederState = Str("feeding") /\ cache.lastFeedingState # Str("feeding")

\* the derived state is idle and the cached state is feeding
FeedingEnds == FeederState = Str("idle") /\ cache.lastFeedingState = Str("feeding")

\* the feeder detector's call is suspended at the given place
FeederAt(place) ==
    /\ InDetector("handleFeederSnapshot")
    /\ Suspended(StackNow, "handleFeederSnapshot").at = place

\* C29: under sequential ingestion the feeder detector calls
\* appendNotification with the 'started dispensing' message exactly when the
\* derived state is feeding and the cached state is not feeding, with the
\* 'finished dispensing' message and push type feeding_complete exactly when
\* the derived state is idle and the cached state is feeding, and with no
\* other message.
C29_FeederNotifications ==
    /\ [](/\ Notifying(FEEDER_STARTED_NOTIFICATION) => FeedingBegins
          /\ Notifying(FEEDER_FINISHED_NOTIFICATION)
                => /\ FeedingEnds
                   /\ \E i \in 1..Len(StackNow) :
                          /\ StackNow[i].fn = "appendNotification"
                          /\ StackNow[i].v.pushType = Str("feeding_complete")
          /\ InDetector("handleFeederSnapshot") /\ InDetector("appendNotification")
                => \/ Notifying(FEEDER_STARTED_NOTIFICATION)
                   \/ Notifying(FEEDER_FINISHED_NOTIFICATION))
    /\ [][Returned("handleFeederSnapshot")
              => /\ FeederAt("started") <=> FeedingBegins
                 /\ FeederAt("finished") <=> FeedingEnds]_vars

\* the detector notifies of the end of a feeding that a snapshot before began
C29_Witness ==
    /\ Notifying(FEEDER_FINISHED_NOTIFICATION)
    /\ cache.lastFeedingState = Str("feeding")
    /\ Get(Snapshot, "feedingStatus") = Str("IDLE")

---------------------------------------------------------------------------
(* The detectors when a log of one of them cannot be parsed *)

\* water-events.json holds text that is not JSON; no other document exists
InitDetectFaults ==
    InitWith([k \in Keys |-> IF k = WATER_EVENTS_FILE THEN Malformed ELSE Absent])

SpecDetectFaults == InitDetectFaults /\ [][NextDetect]_vars

\* the device's PATCH of environment-current has been answered
Answered ==
    /\ pc[Device] = "idle"
    /\ resp[Device].of = "patchFile"

\* C30: the detectors are independent within a snapshot: once the PATCH of a
\* snapshot is answered, the cached value of each rising-edge detector is the
\* flag of that detector in the stored snapshot, whatever the outcome of the
\* other detectors on the snapshot.
C30_DetectorsIndependent ==
    Answered => \A fn \in RisingEdgeDetectors :
                    CachedFlag(fn, cache) = Bool(Flag(fn, files[ENV_CURRENT_KEY].val))

---------------------------------------------------------------------------
(* Ingestion when the analysis document cannot be parsed *)

\* analysis.json holds text that is not JSON; no other document exists
InitAnalysisFaults ==
    InitWith([k \in Keys |-> IF k = ANALYTICS_FILE THEN Malformed ELSE Absent])

SpecAnalysisFaults == InitAnalysisFaults /\ [][NextDetect]_vars

\* C31: a failure of the analysis that an event append starts during the
\* ingestion of a snapshot is skipped: the PATCH of the snapshot is answered
\* with 200 after each of the seven detectors has been called.
C31_AnalysisFailureSkipped ==
    Answered => resp[Device].status = 200 /\ RanNow = Detectors

---------------------------------------------------------------------------
(* The water analysis at start over logs of different ages *)

\* the ages in minutes of the water events at the start of the clock; the
\* events are older by every advance of the clock before the analysis
WaterAges == {900, 12 * 60, 12 * 60 - 1, 240}

\* the logs as recordWaterIntakeEvent appends them: in the order of time
WaterLogs ==
    {q \in SeqsUpTo(WaterAges, MaxEvents) :
        \A i \in 1..(Len(q) - 1) : q[i] >= q[i + 1]}

InitWaterStatus ==
    \E q \in WaterLogs :
        InitWith([k \in Keys |->
                     IF k = WATER_EVENTS_FILE
                     THEN Stored(Arr([i \in DOMAIN q |->
                                         Obj([ts |-> Iso(0 - q[i]),
                                              delta |-> Num(Points(6)),
                                              levelAfter |-> Num(Points(60))])]))
                     ELSE Absent])

NextWaterStatus ==
    \/ reqs = 0 /\ Bootstrap(Device)
    \/ Resume(Device)
    \/ MergeRead(Device)
    \/ FileOpen(Device)
    \/ Tick(1)

SpecWaterStatus == InitWaterStatus /\ [][NextWaterStatus]_vars

---------------------------------------------------------------------------
(* Claims on the status of the water analysis *)

\* the times of the water events of the data directory
WaterTimes ==
    LET events == ensureArray(files[WATER_EVENTS_FILE].val)
    IN {Get(events[i], "ts").v : i \in 1..Len(events)}

\* the age of the most recent water event when the analysis ran
LatestAge ==
    Get(WaterSection, "updatedAt").v - (CHOOSE ts \in WaterTimes : \A u \in WaterTimes : u <= ts)

\* the list of notifications holds the water warning
WaterWarned == Carrying(ListNow, WATER_WARNING) # {}

\* the status and the warning of the water section
WaterStatusIs(status, warning) ==
    /\ Get(WaterSection, "status") = Str(status)
    /\ Get(WaterSection, "warning") = warning

\* C32: the analysis of no water event has the status insufficient_data, no
\* warning and no notification; the analysis of events of which the most
\* recent is older than 12 hours has the status warning, the warning and the
\* notification; the analysis of events of which the most recent is at most
\* 12 hours old has the status ok, no warning and no notification.
C32_WaterStatus ==
    Analysed
    => /\ WaterTimes = {} => WaterStatusIs("insufficient_data", Null) /\ ~WaterWarned
       /\ (WaterTimes # {} /\ LatestAge > 12 * 60)
             => WaterStatusIs("warning", Str(WATER_WARNING)) /\ WaterWarned
       /\ (WaterTimes # {} /\ LatestAge <= 12 * 60)
             => WaterStatusIs("ok", Null) /\ ~WaterWarned

\* events of which the most recent was 12 hours and a minute old at the
\* analysis: the warning and its notification have been written
C32_Witness ==
    /\ Analysed
    /\ WaterTimes # {}
    /\ LatestAge = 12 * 60 + 1
    /\ WaterStatusIs("warning", Str(WATER_WARNING))
    /\ WaterWarned

---------------------------------------------------------------------------
(* The sweep over the chart that ingestion writes *)

ChartBodies ==
    {Obj([temperature |-> Num(Points(22))]),
     Obj([temperature |-> Num(Points(23)), co2 |-> Num(Points(400))])}

ChartDeltas == {MIN_RECORD_INTERVAL_MS, AUTO_CLEANUP_INTERVAL_MS}

InitChart == InitWith([k \in Keys |-> Absent])

NextChart ==
    \/ CallBudget /\ \E body \in ChartBodies : PatchSnapshot(Device, ENV_CURRENT_KEY, body)
    \/ Resume(Device)
    \/ MergeRead(Device)
    \/ CallBudget /\ SweepStart
    \/ SweepRead
    \/ SweepWrite
    \/ \E p \in {Device, Janitor} : FileOpen(p)
    \/ \E d \in ChartDeltas : Tick(d)

SpecChart == InitChart /\ [][NextChart]_vars

---------------------------------------------------------------------------
(* Claims on the sweep of the chart *)

\* the series of a metric in the chart document
SeriesOf(f, metric) == ensureArray(Get(f[ENV_CHART_FILE].val, metric))

\* the sweep's write of the chart completes in this step
ChartSwept ==
    /\ pc[Janitor] = "sweep_write"
    /\ op[Janitor].key = ENV_CHART_FILE
    /\ op[Janitor].phase = "writing"
    /\ pc'[Janitor] # "sweep_write"

\* C33: a sweep retains the chart points that ingestion has produced within
\* the last 31 days. Every point of this specification is younger than 31
\* days, as the clock advances by less in all: no sweep removes a point.
C33_RecentPointsRetained ==
    [][ChartSwept => \A metric \in ChartMetrics :
                        Len(SeriesOf(files', metric)) = Len(SeriesOf(files, metric))]_vars

---------------------------------------------------------------------------
(* The weight history over consecutive snapshots *)

\* the weights that the device uploads, in hundredths of a kilogram
WeightsUploaded == {400, 404, 406, 0}

WeightDeltas ==
    {WEIGHT_HISTORY_INTERVAL_MS - 1, WEIGHT_HISTORY_INTERVAL_MS, WEIGHT_HISTORY_WINDOW_MS + 1}

InitWeight == InitWith([k \in Keys |-> Absent])

NextWeight ==
    \/ CallBudget /\ \E w \in WeightsUploaded :
          PatchSnapshot(Device, ENV_CURRENT_KEY,
                        Obj([temperature |-> Num(Points(22)), petWeight |-> Num(w)]))
    \/ Resume(Device)
    \/ MergeRead(Device)
    \/ FileOpen(Device)
    \/ \E d \in WeightDeltas : Tick(d)

SpecWeight == InitWeight /\ [][NextWeight]_vars

---------------------------------------------------------------------------
(* Claims on the weight history *)

\* the weight history of a data directory
WeightHistory(f) == ensureArray(f[WEIGHT_HISTORY_FILE].val)

\* the weight of the snapshot of the device's handler
WeightOffered == Get(Snapshot, "petWeight").v

\* the weight detector is called in this step
WeightDetected ==
    /\ \A i \in 1..Len(RanNow) : RanNow[i] # "maybeRecordWeightSnapshot"
    /\ \E i \in 1..Len(RanNow') : RanNow'[i] = "maybeRecordWeightSnapshot"

\* recordWeightHistory has read the history in this step
WeightRead ==
    /\ InDetector("recordWeightHistory")
    /\ Suspended(StackNow, "recordWeightHistory").at = "read"
    /\ loc'[Device] # loc[Device]

\* the last entry of the history is younger than 30 minutes and within
\* 0.05 kg of the weight
WeightSampled(history, weight) ==
    /\ history # <<>>
    /\ now - Get(history[Len(history)], "ts").v < 30
    /\ Get(history[Len(history)], "weight").v - weight \in (0 - 4)..4

\* the history with the weight appended at the current time, without the
\* entries older than 30 days
WeightAppended(history, weight) ==
    SelectSeq(history, LAMBDA e : Get(e, "ts").v >= now - 30 * 24 * 60)
        \o <<Obj([ts |-> Iso(now), weight |-> Num(weight)])>>

\* what recordWeightHistory does once it has read the history: nothing when
\* the last entry is a sample of this weight, else it writes the history
\* with the weight appended; the history changes by that write only
WeightDecided ==
    /\ WeightRead
          => IF WeightSampled(WeightHistory(files), WeightOffered)
             THEN ~(op'[Device].kind = "write" /\ op'[Device].key = WEIGHT_HISTORY_FILE)
             ELSE /\ op'[Device].kind = "write" /\ op'[Device].key = WEIGHT_HISTORY_FILE
                  /\ op'[Device].arg = Arr(WeightAppended(WeightHistory(files), WeightOffered))
    /\ WeightHistory(files') # WeightHistory(files)
          => /\ op[Device].kind = "write" /\ op[Device].key = WEIGHT_HISTORY_FILE
             /\ files'[WEIGHT_HISTORY_FILE].val = op[Device].arg

\* C34 as claimed: every weight of a snapshot is compared with the last entry
\* of the history, and is appended unless that entry is younger than 30
\* minutes and within 0.05 of it.
C34_EveryWeightSampled ==
    [][/\ WeightDetected => InDetector("recordWeightHistory")'
       /\ WeightDecided]_vars

\* C34: a weight above zero is compared with the last entry of the history:
\* when that entry is younger than 30 minutes and within 0.05 of the weight
\* the history is left as it is, else the weight is appended with the current
\* time and the entries older than 30 days are dropped; a weight of zero is
\* not recorded.
C34_PositiveWeightSampled ==
    [][/\ WeightDetected => (InDetector("recordWeightHistory")' <=> WeightOffered > 0)
       /\ WeightDecided]_vars

\* the second snapshot's weight of 4.04 kg has left the history of one entry
\* of 4 kg as it was
C34_Witness ==
    /\ Answered
    /\ reqs = 2
    /\ Get(files[ENV_CURRENT_KEY].val, "petWeight") = Num(404)
    /\ Len(WeightHistory(files)) = 1
    /\ Get(WeightHistory(files)[1], "weight") = Num(400)

---------------------------------------------------------------------------
(* The environment history over consecutive snapshots *)

\* the histories at start: none, or the entry of an ingestion of 4 minutes
\* before
HistoriesAtStart ==
    {Absent,
     Stored(Arr(<<Obj([ts |-> Iso(0 - 4), temperature |-> Num(Points(21))])>>))}

HistoryBodies == {Obj([temperature |-> Num(Points(22))]), Obj([temperature |-> Num(Points(23))])}

HistoryDeltas == {1, MIN_RECORD_INTERVAL_MS, HISTORY_WINDOW_MS + 1}

InitHistory ==
    \E h \in HistoriesAtStart :
        InitWith([k \in Keys |-> IF k = ENV_HISTORY_FILE THEN h ELSE Absent])

NextHistory ==
    \/ CallBudget /\ \E body \in HistoryBodies : PatchSnapshot(Device, ENV_CURRENT_KEY, body)
    \/ Resume(Device)
    \/ MergeRead(Device)
    \/ FileOpen(Device)
    \/ \E d \in HistoryDeltas : Tick(d)

SpecHistory == InitHistory /\ [][NextHistory]_vars

---------------------------------------------------------------------------
(* Claims on the environment history *)

\* the environment history of a data directory
EnvHistory(f) == ensureArray(f[ENV_HISTORY_FILE].val)

\* the time of an entry
TsOf(e) == Get(e, "ts").v

\* C35 as claimed: consecutive entries of the environment history are at
\* least 5 minutes apart, and the history has at most 64 entries.
C35_FiveMinutesApart ==
    /\ Len(EnvHistory(files)) <= 64
    /\ \A i \in 1..(Len(EnvHistory(files)) - 1) :
          TsOf(EnvHistory(files)[i + 1]) - TsOf(EnvHistory(files)[i]) >= 5

\* maybeRecordEnvironmentSnapshot has read the history in this step
HistoryRead ==
    /\ StackNow # <<>>
    /\ StackNow[Len(StackNow)].fn = "maybeRecordEnvironmentSnapshot"
    /\ StackNow[Len(StackNow)].at = "read"
    /\ loc'[Device] # loc[Device]

\* the entry that the ingestion made before it read the history
EntryMade == StackNow[Len(StackNow)].v.entry

\* the last entry of the history is younger than 5 minutes
YoungEntry(history) ==
    /\ history # <<>>
    /\ now - TsOf(history[Len(history)]) < 5

\* the entries of a history that are no older than 2 hours
InsideWindow(history) == SelectSeq(history, LAMBDA e : now - TsOf(e) <= 2 * 60)

\* what the ingestion writes once it has read the history
HistoryWritten(history, written) ==
    /\ Len(written) <= 64
    /\ \A i \in 1..Len(written) : now - TsOf(written[i]) <= 2 * 60
    /\ IF YoungEntry(history)
       THEN /\ Len(written) = Len(InsideWindow(history))
            /\ written # <<>>
            /\ \A i \in 1..(Len(written) - 1) : written[i] = InsideWindow(history)[i]
            /\ TsOf(written[Len(written)]) = TsOf(history[Len(history)])
            /\ Get(written[Len(written)], "temperature") = Get(EntryMade, "temperature")
       ELSE /\ written = InsideWindow(history) \o InsideWindow(<<EntryMade>>)
            /\ history # <<>>
                  => TsOf(EntryMade) - TsOf(history[Len(history)]) >= 5 - (now - TsOf(EntryMade))

\* C35: when the last entry of the environment history is younger than 5
\* minutes at the time the history has been read, the reading overwrites it
\* and keeps its timestamp; else the entry made before the read is appended,
\* so it is at least 5 minutes after the last entry less the time of the read;
\* the history written holds entries of the last 2 hours only, 64 at most,
\* and the stored history changes by that write only.
C35_HistorySampled ==
    [][/\ HistoryRead
          => /\ op'[Device].kind = "write" /\ op'[Device].key = ENV_HISTORY_FILE
             /\ HistoryWritten(EnvHistory(files), op'[Device].arg.v)
       /\ EnvHistory(files') # EnvHistory(files)
          => /\ op[Device].kind = "write" /\ op[Device].key = ENV_HISTORY_FILE
             /\ files'[ENV_HISTORY_FILE].val = op[Device].arg]_vars

\* a second reading, a minute after the first, has overwritten the entry of
\* the first and kept its time
C35_Witness ==
    /\ Answered
    /\ reqs = 2
    /\ now = 1
    /\ Get(files[ENV_CURRENT_KEY].val, "lastUpdated") = Iso(1)
    /\ Len(EnvHistory(files)) = 1
    /\ TsOf(EnvHistory(files)[1]) = 0
    /\ Get(EnvHistory(files)[1], "temperature") = Get(files[ENV_CURRENT_KEY].val, "temperature")

---------------------------------------------------------------------------
(* The list of notifications at its maximum length *)

\* an entry that a client has listed, i minutes before the start
ListedNote(i) ==
    Obj([message |-> Str(ToString(i)), type |-> Str("info"),
         time |-> Iso(0 - i), pushed |-> Bool(TRUE)])

\* the lists at start, newest first: 50 entries of other messages; 48 of
\* them and the entry of the motion message at the tail
ListsAtStart ==
    {Arr([i \in 1..NOTIFICATION_LIMIT |-> ListedNote(i)]),
     Arr([i \in 1..(NOTIFICATION_LIMIT - 1) |->
             IF i < NOTIFICATION_LIMIT - 1 THEN ListedNote(i) ELSE OldNotification])}

InitCap ==
    \E list \in ListsAtStart :
        InitWith([k \in Keys |-> IF k = NOTIFICATIONS_FILE THEN Stored(list) ELSE Absent])

NextCap ==
    \/ CallBudget /\ \E p \in Callers, n \in Notices : NotifyStart(p, n)
    \/ \E p \in Callers : NotifyDecide(p)
    \/ \E p \in Callers : NotifyDone(p)
    \/ \E p \in Callers : FileOpen(p)
    \/ \E d \in NotifDeltas : Tick(d)

SpecCap == InitCap /\ [][NextCap]_vars

---------------------------------------------------------------------------
(* Claims on the length of the list of notifications *)

\* the entries of a list that carry another message
OtherThan(items, message) ==
    SelectSeq(items, LAMBDA e : Get(e, "message") # Str(message))

\* the list that p queues for writing: the fresh entry first, then the
\* entries of the other messages in their order, the tail beyond 50 left off
CappedWrite(p, written) ==
    LET others == OtherThan(ListRead(p), loc[p].message)
    IN /\ Len(written) = IF Len(others) < 50 THEN Len(others) + 1 ELSE 50
       /\ Get(written[1], "message") = Str(loc[p].message)
       /\ Get(written[1], "time") = Iso(now)
       /\ \A i \in 2..Len(written) : written[i] = others[i - 1]

\* C36: the list of notifications never holds more than 50 entries; a
\* notification that is recorded is the first entry of the list written,
\* followed by the entries that were listed, of which the last are left off
\* beyond 50.
C36_ListCapped ==
    /\ [](Len(ListNow) <= 50)
    /\ [][\A p \in Callers :
             /\ (Decides(p) /\ pc'[p] = "notify_write")
                   => /\ op'[p].kind = "write" /\ op'[p].key = NOTIFICATIONS_FILE
                      /\ CappedWrite(p, op'[p].arg.v)
             /\ (pc[p] = "notify_write" /\ pc'[p] = "idle")
                   => /\ Len(ListNext) = Len(op[p].arg.v)
                      /\ Get(ListNext[1], "message") = Str(loc[p].message)
                      /\ \A i \in 2..Len(ListNext) : ListNext[i] = op[p].arg.v[i]]_vars

\* the water notification heads a list of 50 whose last entry, the 50th
\* before, is gone
C36_Witness ==
    /\ Len(ListNow) = 50
    /\ Get(ListNow[1], "message") = Str(WATER_LOW_NOTIFICATION)
    /\ ListNow[50] = ListedNote(49)

---------------------------------------------------------------------------
(* A snapshot that is uploaded twice: the repeated upload runs while the
   first one is handled *)

\* the clients that upload: the device and the repeat of its transport
Senders == 1..2

LevelBefore == Obj([temperature |-> Num(Points(22)), waterLevel |-> Num(Points(80))])
LevelAfter == Obj([waterLevel |-> Num(Points(70))])

InitRetry == InitWith([k \in Keys |-> Absent])

NextRetry ==
    \/ reqs = 0 /\ PatchSnapshot(Device, ENV_CURRENT_KEY, LevelBefore)
    \/ /\ reqs >= 1 /\ reqs < MaxCalls + 1
       /\ reqs = 1 => resp[Device].of = "patchFile"
       /\ \E p \in Senders : PatchSnapshot(p, ENV_CURRENT_KEY, LevelAfter)
    \/ \E p \in Senders : Resume(p)
    \/ \E p \in Senders : MergeRead(p)
    \/ \E p \in Senders : FileOpen(p)

SpecRetry == InitRetry /\ [][NextRetry]_vars

---------------------------------------------------------------------------
(* Claims on the repeated snapshot *)

\* the stack and the detectors called of a sender's handler
StackOf(f, p) == IF pc[p] = "await" /\ "stack" \in DOMAIN f[p] THEN f[p].stack ELSE <<>>
RanOf(f, p) == IF "ran" \in DOMAIN f[p] THEN f[p].ran ELSE <<>>

\* p's handler calls monitorWaterLevel in this step, on a level
ExaminesLevel(p, level) ==
    /\ pc[p] = "await" /\ pc'[p] = "await"
    /\ RanOf(loc, p) = <<>>
    /\ RanOf(loc', p) # <<>>
    /\ Get(Suspended(loc[p].stack, "maybeRecordEnvironmentSnapshot").v.snapshot,
           "waterLevel") = Num(level)

\* the entries of the water log for a drop of 10 points to 70
DropsLogged ==
    {i \in 1..Len(ensureArray(files[WATER_EVENTS_FILE].val)) :
        /\ Get(ensureArray(files[WATER_EVENTS_FILE].val)[i], "delta") = Num(Points(10))
        /\ Get(ensureArray(files[WATER_EVENTS_FILE].val)[i], "levelAfter") = Num(Points(70))}

\* C37: edge detection is not serialized between concurrent ingestions: an
\* ingestion that examines a level at least 5 points below the cached reading
\* starts to record an intake event and leaves the cached reading as it is
\* while the event is recorded, whether or not another ingestion is recording
\* that drop; so a snapshot that is uploaded twice can be counted twice.
C37_EdgeNotSerialized ==
    [][\A p \in Senders, level \in {Points(70), Points(80)} :
          (ExaminesLevel(p, level) /\ Dropped(level))
          => /\ RecordingDrop(StackOf(loc', p))
             /\ cache'.lastWaterLevelReading = cache.lastWaterLevelReading]_vars

\* the level fell once, from 80 to 70; both uploads of the snapshot with 70
\* are answered and the water log holds two intake events of 10 points
C37_Witness ==
    /\ reqs = 3
    /\ \A p \in Senders : pc[p] = "idle" /\ resp[p].of = "patchFile" /\ resp[p].status = 200
    /\ Cardinality(DropsLogged) = 2

---------------------------------------------------------------------------
(* Two callers append to the motion log at once *)

AppendEvents == {Obj([lightOn |-> Bool(TRUE)]), Obj([lightOn |-> Bool(FALSE)])}

InitAppend == InitWith([k \in Keys |-> Absent])

NextAppend ==
    \/ CallBudget /\ \E p \in Callers, event \in AppendEvents :
          AppendStart(p, event, EVENT_WINDOW_MS, MAX_MOTION_EVENTS)
    \/ \E p \in Callers : AppendWrite(p)
    \/ \E p \in Callers : AppendDone(p)
    \/ \E p \in Callers : FileOpen(p)
    \/ Tick(1)

SpecAppend == InitAppend /\ [][NextAppend]_vars

\* C38: appends to an event log are atomic with respect to each other: once
\* every append that was called has completed, the log holds an entry for
\* each of them (the entries are within the window and below the cap).
C38_NoAppendLost ==
    (\A p \in Callers : pc[p] = "idle") => Len(LogNow) = reqs

---------------------------------------------------------------------------
(* Snapshots of the feeder: feeding, idle, and neither *)

\* the bodies that the device uploads: the feeder dispenses; the feeder has
\* stopped with food in the bowl; the feeder has stopped and the bowl weighs
\* nothing, from which deriveFeederState derives no state
FeederBodies ==
    {Obj([temperature |-> Num(Points(22)), feedingInProgress |-> Bool(TRUE)]),
     Obj([temperature |-> Num(Points(22)), feedingInProgress |-> Bool(FALSE),
          feederCurrentWeight |-> Num(Points(50))]),
     Obj([temperature |-> Num(Points(22)), feedingInProgress |-> Bool(FALSE),
          feederCurrentWeight |-> Num(0)])}

InitFeeder == InitWith([k \in Keys |-> Absent])

NextFeeder ==
    \/ /\ reqs < MaxCalls + 1
       /\ \E body \in FeederBodies : PatchSnapshot(Device, ENV_CURRENT_KEY, body)
    \/ Resume(Device)
    \/ MergeRead(Device)
    \/ FileOpen(Device)

SpecFeeder == InitFeeder /\ [][NextFeeder]_vars

---------------------------------------------------------------------------
(* Claims on the snapshot without a feeder state *)

\* the states of the entries of the feeder log, in their order
FeederLog ==
    [i \in 1..Len(ensureArray(files[FEEDER_EVENTS_FILE].val)) |->
        Get(ensureArray(files[FEEDER_EVENTS_FILE].val)[i], "state")]

\* C39: a snapshot from which no feeder state is derived leaves the cached
\* feeder state as it is and calls appendNotification with no feeder
\* message; after the snapshots feeding, no state, idle the list holds
\* exactly one 'finished dispensing' notification.
C39_UnknownKeepsFeederState ==
    /\ [][(Returned("handleFeederSnapshot") /\ FeederState = Undefined)
             => /\ cache'.lastFeedingState = cache.lastFeedingState
                /\ ~FeederAt("started") /\ ~FeederAt("finished")]_vars
    /\ []((InDetector("handleFeederSnapshot") /\ FeederState = Undefined)
             => /\ ~Notifying(FEEDER_STARTED_NOTIFICATION)
                /\ ~Notifying(FEEDER_FINISHED_NOTIFICATION))
    /\ []((Answered /\ FeederLog = <<Str("feeding"), Undefined, Str("idle")>>)
             => Cardinality(Carrying(ListNow, FEEDER_FINISHED_NOTIFICATION)) = 1)

\* the snapshots feeding, no state, idle are answered; the snapshot without
\* a state left the cached state at feeding and the list holds the
\* 'finished dispensing' notification
C39_Witness ==
    /\ Answered
    /\ reqs = 3
    /\ FeederLog = <<Str("feeding"), Undefined, Str("idle")>>
    /\ cache.lastFeedingState = Str("idle")
    /\ Carrying(ListNow, FEEDER_FINISHED_NOTIFICATION) # {}

====
